---- MODULE Spec2Model ----
(***************************************************************************)
(* Model of breed_akc.py: the URL validator, the name normaliser, the      *)
(* paginated link discovery and the two on-disk cache tiers.               *)
(*                                                                         *)
(* Python str values are TLA+ strings; a character is a string of length   *)
(* one.  The alphabet is ASCII.                                            *)
(***************************************************************************)
EXTENDS Integers, Sequences, FiniteSets, TLC

(***************************************************************************)
(* Python str primitives used by the code.                                 *)
(***************************************************************************)
UpperLetters == "ABCDEFGHIJKLMNOPQRSTUVWXYZ"

LowerLetters == "abcdefghijklmnopqrstuvwxyz"

DigitChars == "0123456789"

Char(s, i) == SubSeq(s, i, i)

CharsOf(s) == {Char(s, i) : i \in 1..Len(s)}

UpperSet == CharsOf(UpperLetters)

LowerSet == CharsOf(LowerLetters)

DigitSet == CharsOf(DigitChars)

\* \s of the re module (ASCII part that the model's texts use)
SpaceSet == {" ", "\t", "\n"}

\* \w of the re module: letters, digits and the underscore
WordSet == UpperSet \cup LowerSet \cup DigitSet \cup {"_"}

char_lower(c) ==
    IF c \in UpperSet
    THEN Char(LowerLetters, CHOOSE i \in 1..Len(UpperLetters) : Char(UpperLetters, i) = c)
    ELSE c

char_upper(c) ==
    IF c \in LowerSet
    THEN Char(UpperLetters, CHOOSE i \in 1..Len(LowerLetters) : Char(LowerLetters, i) = c)
    ELSE c

RECURSIVE str_lower(_)
\* str.lower()
str_lower(s) ==
    IF Len(s) <= 1 THEN char_lower(s)
    ELSE str_lower(SubSeq(s, 1, Len(s) \div 2))
         \o str_lower(SubSeq(s, Len(s) \div 2 + 1, Len(s)))

\* the printable ASCII characters and the whitespace, by code point
AsciiChars ==
    "\t\n !\"#$%&'()*+,-./0123456789:;<=>?@ABCDEFGHIJKLMNOPQRSTUVWXYZ[\\]^_abcdefghijklmnopqrstuvwxyz{|}~"

\* the rank of a character in code point order
ord(c) == CHOOSE i \in 1..Len(AsciiChars) : Char(AsciiChars, i) = c

RECURSIVE str_lt(_, _)
\* a < b on str: lexicographic by code point
str_lt(a, b) ==
    IF b = "" THEN FALSE
    ELSE IF a = "" THEN TRUE
    ELSE IF Char(a, 1) # Char(b, 1) THEN ord(Char(a, 1)) < ord(Char(b, 1))
    ELSE str_lt(SubSeq(a, 2, Len(a)), SubSeq(b, 2, Len(b)))

\* s[i:] (1-based i)
str_from(s, i) == SubSeq(s, i, Len(s))

\* s.startswith(p)
str_startswith(s, p) == Len(p) <= Len(s) /\ SubSeq(s, 1, Len(p)) = p

\* s.find(sub) as a 1-based index, 0 when absent
str_find(s, sub) ==
    LET hits == {i \in 1..(Len(s) - Len(sub) + 1) : SubSeq(s, i, i + Len(sub) - 1) = sub}
    IN IF hits = {} THEN 0 ELSE CHOOSE i \in hits : \A j \in hits : i <= j

\* s.rfind(sub) as a 1-based index, 0 when absent
str_rfind(s, sub) ==
    LET hits == {i \in 1..(Len(s) - Len(sub) + 1) : SubSeq(s, i, i + Len(sub) - 1) = sub}
    IN IF hits = {} THEN 0 ELSE CHOOSE i \in hits : \A j \in hits : i >= j

\* sub in s
str_contains(s, sub) == str_find(s, sub) # 0

RECURSIVE str_rstrip(_, _)
\* s.rstrip(chars)
str_rstrip(s, cs) ==
    IF s # "" /\ Char(s, Len(s)) \in cs THEN str_rstrip(SubSeq(s, 1, Len(s) - 1), cs) ELSE s

RECURSIVE str_lstrip(_, _)
\* s.lstrip(chars)
str_lstrip(s, cs) ==
    IF s # "" /\ Head(s) \in cs THEN str_lstrip(Tail(s), cs) ELSE s

\* s.strip(chars)
str_strip(s, cs) == str_rstrip(str_lstrip(s, cs), cs)

RECURSIVE str_split(_, _)
\* s.split(sep) for a one-character separator: a sequence of strings
str_split(s, sep) ==
    LET i == str_find(s, sep)
    IN IF i = 0 THEN <<s>>
       ELSE <<SubSeq(s, 1, i - 1)>> \o str_split(str_from(s, i + 1), sep)

\* s.isdigit()
str_isdigit(s) == s # "" /\ \A i \in 1..Len(s) : Char(s, i) \in DigitSet

RECURSIVE str_replace(_, _, _)
\* s.replace(a, b) for a one-character a
str_replace(s, a, b) ==
    IF s = "" THEN ""
    ELSE (IF Head(s) = a THEN b ELSE Head(s)) \o str_replace(Tail(s), a, b)

RECURSIVE title_from(_, _)
title_from(s, prevCased) ==
    IF s = "" THEN ""
    ELSE LET c == Head(s)
             cased == c \in UpperSet \cup LowerSet
         IN (IF ~cased THEN c ELSE IF prevCased THEN char_lower(c) ELSE char_upper(c))
            \o title_from(Tail(s), cased)

\* s.title()
str_title(s) == title_from(s, FALSE)

RECURSIVE re_remove_outside(_, _)
\* re.sub('[^...]', '', s): drops every character that is not in keep
re_remove_outside(s, keep) ==
    IF s = "" THEN ""
    ELSE (IF Head(s) \in keep THEN Head(s) ELSE "") \o re_remove_outside(Tail(s), keep)

\* every character of cls gives rep, runs are not collapsed
collapse_at_each(s, i, cls, rep) ==
    IF Char(s, i) \notin cls THEN Char(s, i) ELSE rep

\* what the character at i contributes: the first of a run of cls gives rep
collapse_at(s, i, cls, rep) ==
    IF Char(s, i) \notin cls THEN Char(s, i)
    ELSE IF i > 1 /\ Char(s, i - 1) \in cls THEN ""
    ELSE rep

RECURSIVE collapse_range(_, _, _, _, _)
collapse_range(s, lo, hi, cls, rep) ==
    IF lo > hi THEN ""
    ELSE IF lo = hi THEN collapse_at(s, lo, cls, rep)
    ELSE collapse_range(s, lo, (lo + hi) \div 2, cls, rep)
         \o collapse_range(s, (lo + hi) \div 2 + 1, hi, cls, rep)

\* re.sub('[...]+', rep, s): every maximal run of characters of cls becomes rep
re_collapse(s, cls, rep) == collapse_range(s, 1, Len(s), cls, rep)

(***************************************************************************)
(* urllib.parse                                                            *)
(***************************************************************************)
SchemeChars == UpperSet \cup LowerSet \cup DigitSet \cup {"+", "-", "."}

\* urllib.parse.uses_params
UsesParams ==
    {"", "ftp", "hdl", "prospero", "http", "imap", "https", "shttp", "rtsp", "rtspu",
     "sip", "sips", "mms", "sftp", "tel"}

\* first index >= from of a character of cs in s, Len(s)+1 when there is none
find_delim(s, from, cs) ==
    LET hits == {i \in from..Len(s) : Char(s, i) \in cs}
    IN IF hits = {} THEN Len(s) + 1 ELSE CHOOSE i \in hits : \A j \in hits : i <= j

\* a scheme ends at colon: a letter, then scheme characters only
has_scheme(url, colon) ==
    /\ colon > 1
    /\ Char(url, 1) \in UpperSet \cup LowerSet
    /\ \A i \in 1..(colon - 1) : Char(url, i) \in SchemeChars

\* index of the colon that ends the scheme, 0 when the url has no scheme
scheme_end(url, colon) == IF has_scheme(url, colon) THEN colon ELSE 0

\* _splitparams: index of the first ';' of the last path segment, 0 when none
params_at(u, slash) ==
    IF str_find(str_from(u, slash + 1), ";") = 0 THEN 0
    ELSE slash + str_find(str_from(u, slash + 1), ";")

split_params(scheme, netloc, u, query, fragment, semi) ==
    [scheme |-> scheme, netloc |-> netloc,
     path |-> IF semi = 0 THEN u ELSE SubSeq(u, 1, semi - 1),
     params |-> IF semi = 0 THEN "" ELSE str_from(u, semi + 1),
     query |-> query, fragment |-> fragment]

split_query(scheme, netloc, u, fragment, qm) ==
    split_params(scheme, netloc,
                 IF qm = 0 THEN u ELSE SubSeq(u, 1, qm - 1),
                 IF qm = 0 THEN "" ELSE str_from(u, qm + 1),
                 fragment,
                 IF scheme \in UsesParams
                 THEN params_at(IF qm = 0 THEN u ELSE SubSeq(u, 1, qm - 1),
                                str_rfind(IF qm = 0 THEN u ELSE SubSeq(u, 1, qm - 1), "/"))
                 ELSE 0)

split_fragment(scheme, netloc, u, hash) ==
    split_query(scheme, netloc,
                IF hash = 0 THEN u ELSE SubSeq(u, 1, hash - 1),
                IF hash = 0 THEN "" ELSE str_from(u, hash + 1),
                str_find(IF hash = 0 THEN u ELSE SubSeq(u, 1, hash - 1), "?"))

\* nlEnd is the index after the netloc, 0 when the url has none
split_netloc(scheme, u, nlEnd) ==
    split_fragment(scheme,
                   IF nlEnd = 0 THEN "" ELSE SubSeq(u, 3, nlEnd - 1),
                   IF nlEnd = 0 THEN u ELSE str_from(u, nlEnd),
                   str_find(IF nlEnd = 0 THEN u ELSE str_from(u, nlEnd), "#"))

split_scheme(url, k) ==
    split_netloc(IF k = 0 THEN "" ELSE str_lower(SubSeq(url, 1, k - 1)),
                 IF k = 0 THEN url ELSE str_from(url, k + 1),
                 IF str_startswith(IF k = 0 THEN url ELSE str_from(url, k + 1), "//")
                 THEN find_delim(IF k = 0 THEN url ELSE str_from(url, k + 1), 3,
                                 {"/", "?", "#"})
                 ELSE 0)

\* urllib.parse.urlparse: scheme, netloc, path, params, query, fragment
urlparse(url) == split_scheme(url, scheme_end(url, str_find(url, ":")))

urlunparse(p) ==
    (IF p.scheme # "" THEN p.scheme \o ":" ELSE "")
    \o (IF p.netloc # "" THEN "//" \o p.netloc ELSE "")
    \o p.path
    \o (IF p.params # "" THEN ";" \o p.params ELSE "")
    \o (IF p.query # "" THEN "?" \o p.query ELSE "")
    \o (IF p.fragment # "" THEN "#" \o p.fragment ELSE "")

AKC_BASE_SCHEME == "https"

AKC_BASE_NETLOC == "www.akc.org"

join_parsed(href, p) ==
    IF p.scheme # "" /\ p.scheme # AKC_BASE_SCHEME
    THEN href
    ELSE urlunparse([p EXCEPT !.scheme = AKC_BASE_SCHEME,
                              !.netloc = IF p.netloc # "" THEN p.netloc
                                         ELSE AKC_BASE_NETLOC])

\* urljoin(AKC_BASE_URL, href), for an href whose path is absolute and has no
\* dot segment (every href the validator accepts)
urljoin_base(href) == join_parsed(href, urlparse(href))

(***************************************************************************)
(* The URL validator                                                       *)
(***************************************************************************)
EXCLUDED_SLUGS ==
    {"page", "sporting", "hound", "working", "terrier", "toy", "non-sporting", "herding",
     "group", "groups", "mix", "mixed", "all", "breeds", "hypoallergenic", "hairless",
     "large", "small", "best", "types", "categories", "lists", "filter", "search"}

BREEDS_PREFIX == "/dog-breeds/"

\* re.match(r'^/dog-breeds/[^/]+$', path)
re_match_breed_path(path) ==
    /\ str_startswith(path, BREEDS_PREFIX)
    /\ Len(path) > Len(BREEDS_PREFIX)
    /\ ~str_contains(str_from(path, Len(BREEDS_PREFIX) + 1), "/")

\* re.match(r'^[a-z0-9\-]+$', slug)
re_match_slug(slug) ==
    slug # "" /\ \A i \in 1..Len(slug) : Char(slug, i) \in LowerSet \cup DigitSet \cup {"-"}

MIN_SLUG_LEN == 3

\* parts[2].lower().strip('-')
slug_of(parts) == str_strip(str_lower(parts[3]), {"-"})

\* the checks on the slug without the exclusion list
valid_slug_no_exclusions(slug) ==
    IF str_isdigit(slug) \/ str_startswith(slug, "page") THEN FALSE
    ELSE IF ~re_match_slug(slug) THEN FALSE
    ELSE IF Len(slug) < MIN_SLUG_LEN THEN FALSE
    ELSE TRUE

\* the checks on the slug
valid_slug(slug) ==
    IF slug \in EXCLUDED_SLUGS THEN FALSE
    ELSE IF str_isdigit(slug) \/ str_startswith(slug, "page") THEN FALSE
    ELSE IF ~re_match_slug(slug) THEN FALSE
    ELSE IF Len(slug) < MIN_SLUG_LEN THEN FALSE
    ELSE TRUE

\* the checks on path.split('/')
valid_parts(parts) ==
    IF Len(parts) # 3 \/ parts[1] # "" \/ parts[2] # "dog-breeds" THEN FALSE
    ELSE valid_slug(slug_of(parts))

\* the checks applied to the last segment of any path below /dog-breeds/
valid_path_any_depth(path) ==
    IF ~str_startswith(path, BREEDS_PREFIX) THEN FALSE
    ELSE valid_slug(str_strip(str_lower(str_from(path, str_rfind(path, "/") + 1)), {"-"}))

\* the checks on parsed.path.rstrip('/')
valid_path(path) ==
    IF ~re_match_breed_path(path) THEN FALSE
    ELSE valid_parts(str_split(path, "/"))

\* the substring test alone
is_valid_breed_url_substring(href) == href # "" /\ str_contains(href, BREEDS_PREFIX)

is_valid_breed_url(href) ==
    IF href = "" \/ ~str_contains(href, BREEDS_PREFIX) THEN FALSE
    ELSE valid_path(str_rstrip(urlparse(href).path, {"/"}))

(***************************************************************************)
(* The name normaliser                                                     *)
(***************************************************************************)
\* the normaliser without lowercasing
normalize_breed_name_cased(name) ==
    str_strip(re_collapse(re_remove_outside(name, WordSet \cup SpaceSet \cup {"-"}),
                          SpaceSet \cup {"-"}, "_"),
              {"_"})

normalize_breed_name(name) ==
    LET kept == re_remove_outside(str_lower(name), WordSet \cup SpaceSet \cup {"-"})
        joined == re_collapse(kept, SpaceSet \cup {"-"}, "_")
    IN str_strip(joined, {"_"})

(***************************************************************************)
(* The index pages the site can serve.  A document is a flat sequence of   *)
(* elements in document order; an element is a card-like container         *)
(* (div/li/article whose class matches breed|card|item|post) holding       *)
(* anchors, or a bare anchor; in_main says whether it lies inside <main>.  *)
(***************************************************************************)
Anchor(text, href) == [text |-> text, href |-> href, has_href |-> TRUE]

AnchorNoHref(text) == [text |-> text, href |-> "", has_href |-> FALSE]

Card(anchors, in_main) == [card |-> TRUE, in_main |-> in_main, anchors |-> anchors]

Bare(anchor, in_main) == [card |-> FALSE, in_main |-> in_main, anchors |-> <<anchor>>]

Page(main, elems) == [main |-> main, elems |-> elems]

aAkita == Anchor("Akita", "/dog-breeds/akita/")

aShiba == Anchor(" Shiba Inu ", "/dog-breeds/shiba-inu/")

aPug == Anchor("Pug", " /dog-breeds/pug/ ")

aNext == Anchor("Next", "/dog-breeds/page/2/")

aGroup == Anchor("Toy Group", "/dog-breeds/toy/")

\* the URL of aAkita again, as an absolute href and under another text
aAkitaAbs == Anchor("AKITA - the breed", "https://www.akc.org/dog-breeds/akita/")

\* another URL whose text normalizes to the key of aAkita, same length
aAkitaNoSlash == Anchor("akita", "/dog-breeds/akita")

\* another URL whose text normalizes to the key of aAkita, one longer
aAkitaBang == Anchor("Akita!", "/dog-breeds/akita-dog/")

aNoTextNoSlash == Anchor("", "/dog-breeds/pug")

aNoText == Anchor("  ", "/dog-breeds/boxer/")

aSymbols == Anchor("!!!", "/dog-breeds/beagle/")

aQuery == Anchor("Basenji", "/dog-breeds/basenji/?from=/dog-breeds/page/2/")

aShibaHyphen == Anchor("shiba-inu", "https://www.akc.org/dog-breeds/shiba-inu/")

aBeagle == Anchor("Beagle", "/dog-breeds/beagle/")

aBeagleDog == Anchor("Beagle dog", "/dog-breeds/beagle/")

PageSet ==
    { Page(TRUE, <<Card(<<aAkita>>, TRUE), Card(<<aShiba>>, TRUE), Card(<<aNext>>, TRUE)>>),
      Page(TRUE, <<Card(<<aPug>>, TRUE), Card(<<aAkitaAbs>>, TRUE)>>),
      Page(FALSE, <<Bare(aAkitaNoSlash, FALSE), Bare(aGroup, FALSE)>>),
      Page(FALSE, <<Card(<<aAkitaBang>>, FALSE), Card(<<aNoTextNoSlash>>, FALSE)>>),
      Page(FALSE, <<Bare(aSymbols, FALSE), Bare(aQuery, FALSE), Bare(aNoText, FALSE)>>),
      Page(TRUE, <<Bare(aShibaHyphen, TRUE), Bare(aBeagle, TRUE), Card(<<aPug>>, FALSE)>>),
      Page(FALSE, <<Bare(aNext, FALSE), Bare(aBeagle, FALSE), Bare(aPug, FALSE)>>),
      Page(FALSE, <<Bare(aBeagleDog, FALSE), Bare(aAkita, FALSE)>>),
      Page(TRUE, <<Card(<<AnchorNoHref("Pug"), aShiba, aPug>>, TRUE),
                   Bare(aAkita, TRUE), Card(<<aAkitaBang>>, FALSE)>>),
      Page(FALSE, <<>>) }

(***************************************************************************)
(* Link extraction from one fetched index page                             *)
(***************************************************************************)
RECURSIVE seq_filter(_, _)
\* the elements of seq whose index is in keep, in order
seq_filter(seq, keep) ==
    IF seq = <<>> THEN <<>>
    ELSE LET n == Len(seq)
         IN seq_filter(SubSeq(seq, 1, n - 1), keep)
            \o (IF n \in keep THEN <<seq[n]>> ELSE <<>>)

RECURSIVE seq_concat(_)
seq_concat(seqs) == IF seqs = <<>> THEN <<>> ELSE Head(seqs) \o seq_concat(Tail(seqs))

\* soup.find('main'); search_scope = main if main else soup
search_scope(page) ==
    IF page.main
    THEN seq_filter(page.elems, {i \in 1..Len(page.elems) : page.elems[i].in_main})
    ELSE page.elems

\* search_scope.find_all(['div', 'li', 'article'], class_=...)
potential_containers(scope) ==
    seq_filter(scope, {i \in 1..Len(scope) : scope[i].card})

\* container.find('a', href=True): a sequence of zero or one anchor
first_link(anchors) ==
    LET withHref == seq_filter(anchors, {i \in 1..Len(anchors) : anchors[i].has_href})
    IN IF withHref = <<>> THEN <<>> ELSE <<Head(withHref)>>

\* href = link.get('href', '').strip(); kept when _is_valid_breed_url(href)
valid_links(anchors) ==
    LET stripped == [i \in 1..Len(anchors) |->
                        [text |-> anchors[i].text,
                         href |-> str_strip(anchors[i].href, SpaceSet)]]
    IN seq_filter(stripped, {i \in 1..Len(stripped) : is_valid_breed_url(stripped[i].href)})

\* the anchors with an href attribute of every element of scope, in order
all_links(scope) ==
    seq_concat([i \in 1..Len(scope) |->
                   seq_filter(scope[i].anchors,
                              {j \in 1..Len(scope[i].anchors) : scope[i].anchors[j].has_href})])

\* the first link of every container, in order
container_links(containers) ==
    seq_concat([i \in 1..Len(containers) |-> first_link(containers[i].anchors)])

\* every link of the scope is taken, containers or not
links_in_all(scope, containers) == valid_links(all_links(scope))

links_in(scope, containers) ==
    IF containers # <<>>
    THEN valid_links(container_links(containers))
    ELSE valid_links(all_links(scope))

links_of_scope(scope) == links_in(scope, potential_containers(scope))

\* the list breed_links of one page
page_breed_links(page) == links_of_scope(search_scope(page))

\* urlparse(href).path.split('/')[-2]
fallback_slug(parts) == parts[Len(parts) - 1]

name_or_slug(text, href) ==
    IF text # "" THEN text
    ELSE str_title(str_replace(fallback_slug(str_split(urlparse(href).path, "/")),
                               "-", " "))

\* display_name = link_elem.get_text(strip=True), or the slug fallback
display_name_of(link) == name_or_slug(str_strip(link.text, SpaceSet), link.href)

Range(seq) == {seq[i] : i \in 1..Len(seq)}

EmptyMap == [k \in {} |-> 0]

map_put(m, k, v) == [x \in DOMAIN m \cup {k} |-> IF x = k THEN v ELSE m[x]]

(***************************************************************************)
(* State                                                                   *)
(***************************************************************************)
VARIABLES
    pc,           \* position of the running call
    page_num,     \* loop variable of _scrape_all_breed_pages
    attempt,      \* loop variable of _fetch_page_with_retries
    breed_links,  \* links of the current page still to be processed
    breed_map,    \* the directory under construction
    seen_urls,    \* absolute URLs processed in this run
    crawl_log,    \* history: per visited page, whether fetched and its links
    offers,       \* history: per absolute URL, the links offered for it in order
    fn_in,        \* argument of the pure function under check
    fn_out,       \* its result
    list_cache,   \* the file BREED_LIST_CACHE
    profile_cache,\* the files <key>_profile.json, per key
    call,         \* the running public call, with the cache state it started from
    breed_list,   \* local breed_list of get_breed_full_profile
    ret,          \* what the running call returned or raised
    io,           \* history: network requests, file writes, failed cache writes
                  \* and looks at a profile cache file of the running call, and
                  \* the detail page it fetched
    returned,     \* history: keys for which a call has returned a profile
    computed      \* history: what the last call obtained from the network and
                  \* returned, while no cache file has been damaged since

vars == <<pc, page_num, attempt, breed_links, breed_map, seen_urls, crawl_log,
          offers, fn_in, fn_out, list_cache, profile_cache, call, breed_list, ret,
          io, returned, computed>>

fn_vars == <<fn_in, fn_out>>

api_vars == <<list_cache, profile_cache, call, breed_list, ret, returned, computed>>

(***************************************************************************)
(* The cache files.  A file is absent, present but not parseable as JSON,  *)
(* or holds a JSON document; a JSON object is its set of members.          *)
(***************************************************************************)
AbsentFile == [st |-> "absent", data |-> {}]

CorruptFile == [st |-> "corrupt", data |-> {}]

OkFile(data) == [st |-> "ok", data |-> data]

\* os.path.exists(path) and json.load(f) does not raise
readable(file) == file.st = "ok"

json_object(d) == {<<k, d[k]>> : k \in DOMAIN d}

json_member(o, k) == (CHOOSE m \in o : m[1] = k)[2]

json_dict(o) == [k \in {m[1] : m \in o} |-> json_member(o, k)]

\* json.dump(breed_mapping, f): an object of objects
dump_breed_list(m) == json_object([k \in DOMAIN m |-> json_object(m[k])])

load_breed_list(o) == [k \in {m[1] : m \in o} |-> json_dict(json_member(o, k))]

\* the profile is written with the date of scraped_at only
dump_profile_date_only(p) ==
    json_object([p EXCEPT !.key_traits = json_object(@),
                          !.scraped_at = SubSeq(@, 1, 10)])

\* json.dump(profile, f): key_traits is a nested object
dump_profile(p) == json_object([p EXCEPT !.key_traits = json_object(@)])

load_profile(o) == [json_dict(o) EXCEPT !.key_traits = json_dict(@)]

\* the keys callers ask profiles for
CallKeys == {"akita", "husky"}

Pending == [kind |-> "pending", value |-> EmptyMap]

ReturnNone == [kind |-> "None", value |-> EmptyMap]

ReturnValue(v) == [kind |-> "value", value |-> v]

\* no detail page has been fetched
NoPage == [h1 |-> <<>>, body |-> FALSE, divs |-> <<>>]

Quiet == [net |-> FALSE, wrote |-> FALSE, failed |-> FALSE, looked |-> FALSE,
          page |-> NoPage]

IdleCall == [name |-> "none", key |-> "", list_ok |-> FALSE, prof_ok |-> FALSE,
             list_st |-> "absent", prof_st |-> "absent", was_returned |-> FALSE]

\* no call has obtained a value from the network
NotComputed == [name |-> "none", key |-> "", value |-> EmptyMap, cached |-> FALSE,
                fresh |-> FALSE]

\* the running call obtained the value from the network; cached says whether
\* it left the value in its cache file
Computed(name, key, value, cached) ==
    [name |-> name, key |-> key, value |-> value, cached |-> cached, fresh |-> TRUE]

\* no public call is running
NoCall ==
    /\ call = IdleCall
    /\ breed_list = EmptyMap
    /\ ret = Pending
    /\ io = Quiet

\* nothing has been cached yet
EmptyDisk ==
    /\ list_cache = AbsentFile
    /\ profile_cache = [k \in CallKeys |-> AbsentFile]
    /\ returned = {}
    /\ computed = NotComputed

crawl_vars == <<pc, page_num, attempt, breed_links, breed_map, seen_urls, crawl_log,
                offers>>

FIRST_PAGE == 1

LAST_PAGE == 25

MAX_RETRIES == 2

\* pages beyond this one are not served (every fetch of them fails)
MaxLivePages == 2

(***************************************************************************)
(* _scrape_all_breed_pages                                                 *)
(***************************************************************************)
ScrapeStart ==
    /\ pc = "page"
    /\ page_num = FIRST_PAGE
    /\ attempt = 0
    /\ breed_links = <<>>
    /\ breed_map = EmptyMap
    /\ seen_urls = {}
    /\ crawl_log = <<>>
    /\ offers = EmptyMap

\* requests.get succeeds: the page is parsed and its links extracted
FetchOk(page) ==
    /\ pc = "page"
    /\ page_num <= LAST_PAGE
    /\ page_num <= MaxLivePages
    /\ pc' = "links"
    /\ attempt' = 0
    /\ breed_links' = page_breed_links(page)
    /\ crawl_log' = Append(crawl_log, [page |-> page_num, ok |-> TRUE, doc |-> page,
                                      links |-> breed_links'])
    /\ io' = [io EXCEPT !.net = TRUE]
    /\ UNCHANGED <<page_num, breed_map, seen_urls, offers, fn_vars, api_vars>>

\* requests.get raises RequestException: retry, or give the page up
FetchFail ==
    /\ pc = "page"
    /\ page_num <= LAST_PAGE
    /\ IF attempt < MAX_RETRIES - 1
       THEN /\ attempt' = attempt + 1
            /\ UNCHANGED <<page_num, crawl_log>>
       ELSE /\ attempt' = 0
            /\ page_num' = page_num + 1
            /\ crawl_log' = Append(crawl_log, [page |-> page_num, ok |-> FALSE,
                                              doc |-> Page(FALSE, <<>>), links |-> <<>>])
    /\ io' = [io EXCEPT !.net = TRUE]
    /\ UNCHANGED <<pc, breed_links, breed_map, seen_urls, offers, fn_vars, api_vars>>

\* the collision branch: the comparison reads the name existing, which the
\* function never binds, so evaluating it raises NameError
collision(map, normalized, display_name, full_url) ==
    [raised |-> TRUE, map |-> map]

\* lines 196-208: the insertion of a non-empty key
insert_entry(map, normalized, display_name, full_url) ==
    IF normalized \notin DOMAIN map
    THEN [raised |-> FALSE,
          map |-> map_put(map, normalized,
                          [display_name |-> display_name, akc_url |-> full_url])]
    ELSE collision(map, normalized, display_name, full_url)

\* lines 182-208 without the check of seen_urls
process_keyed_no_dedup(map, seen, full_url, display_name, normalized) ==
    IF normalized = ""
    THEN [raised |-> FALSE, skipped |-> FALSE, map |-> map, seen |-> seen \cup {full_url}]
    ELSE [raised |-> insert_entry(map, normalized, display_name, full_url).raised,
          skipped |-> FALSE,
          map |-> insert_entry(map, normalized, display_name, full_url).map,
          seen |-> seen \cup {full_url}]

process_keyed(map, seen, full_url, display_name, normalized) ==
    IF full_url \in seen
    THEN [raised |-> FALSE, skipped |-> TRUE, map |-> map, seen |-> seen]
    ELSE IF normalized = ""
    THEN [raised |-> FALSE, skipped |-> FALSE, map |-> map, seen |-> seen \cup {full_url}]
    ELSE [raised |-> insert_entry(map, normalized, display_name, full_url).raised,
          skipped |-> FALSE,
          map |-> insert_entry(map, normalized, display_name, full_url).map,
          seen |-> seen \cup {full_url}]

process_named(map, seen, full_url, display_name) ==
    process_keyed(map, seen, full_url, display_name, normalize_breed_name(display_name))

\* the iteration with the href taken as it is written in the page
process_link_raw_href(map, seen, link) ==
    process_named(map, seen, link.href, display_name_of(link))

\* one iteration of "for link_elem, href in breed_links"
process_link(map, seen, link) ==
    process_named(map, seen, urljoin_base(link.href), display_name_of(link))

LinkStep(r, url, name) ==
    /\ breed_map' = r.map
    /\ seen_urls' = r.seen
    /\ offers' = map_put(offers, url,
                         (IF url \in DOMAIN offers THEN offers[url] ELSE <<>>)
                         \o <<[name |-> name, skipped |-> r.skipped]>>)
    /\ pc' = IF r.raised THEN "raised" ELSE "links"

ProcessLink ==
    /\ pc = "links"
    /\ breed_links # <<>>
    /\ LinkStep(process_link(breed_map, seen_urls, Head(breed_links)),
                urljoin_base(Head(breed_links).href),
                display_name_of(Head(breed_links)))
    /\ breed_links' = Tail(breed_links)
    /\ UNCHANGED <<page_num, attempt, crawl_log, fn_vars, io, api_vars>>

\* the links of the page are exhausted: next iteration of the page loop
NextPage ==
    /\ pc = "links"
    /\ breed_links = <<>>
    /\ pc' = "page"
    /\ page_num' = page_num + 1
    /\ UNCHANGED <<attempt, breed_links, breed_map, seen_urls, crawl_log, offers,
                   fn_vars, io, api_vars>>

\* the page loop is over: return breed_map
ScrapeReturn ==
    /\ pc = "page"
    /\ page_num > LAST_PAGE
    /\ pc' = "done"
    /\ UNCHANGED <<page_num, attempt, breed_links, breed_map, seen_urls, crawl_log,
                   offers, fn_vars, io, api_vars>>

CrawlInit ==
    /\ ScrapeStart
    /\ NoCall
    /\ EmptyDisk
    /\ fn_in = ""
    /\ fn_out = ""

CrawlNext ==
    \/ \E page \in PageSet : FetchOk(page)
    \/ FetchFail
    \/ ProcessLink
    \/ NextPage
    \/ ScrapeReturn

SpecCrawl == CrawlInit /\ [][CrawlNext]_vars

(***************************************************************************)
(* The validator applied to one href                                       *)
(***************************************************************************)
\* slugs are made of at most this many tokens
MaxSlugTokens == 2

SlugTokens == {"toy", "Toy", "page", "pug", "ab", "1", "-", "_", "non-sporting"}

RECURSIVE token_strings(_, _)
\* the concatenations of at most n tokens
token_strings(tokens, n) ==
    IF n = 0 THEN {""}
    ELSE token_strings(tokens, n - 1)
         \cup {s \o t : s \in token_strings(tokens, n - 1), t \in tokens}

HrefPrefixes == {"", "https://www.akc.org", "//other.org"}

HrefTrails == {"", "/", "//"}

HrefSuffixes == {"", "?from=/dog-breeds/pug/"}

path_forms(slug) ==
    {"/dog-breeds/" \o slug, "/dog-breeds/page/" \o slug, "/dog-breeds/" \o slug \o "/pug",
     "/x/dog-breeds/" \o slug, "dog-breeds/" \o slug, "/dog-breeds" \o slug}

HrefSet ==
    {pre \o path \o trail \o suf :
        pre \in HrefPrefixes,
        path \in UNION {path_forms(slug) : slug \in token_strings(SlugTokens, MaxSlugTokens)},
        trail \in HrefTrails,
        suf \in HrefSuffixes}

NotCrawling ==
    /\ pc = "idle"
    /\ page_num = FIRST_PAGE
    /\ attempt = 0
    /\ breed_links = <<>>
    /\ breed_map = EmptyMap
    /\ seen_urls = {}
    /\ crawl_log = <<>>
    /\ offers = EmptyMap
    /\ NoCall
    /\ EmptyDisk

ValidatorInit ==
    /\ NotCrawling
    /\ fn_in \in HrefSet
    /\ fn_out = [done |-> FALSE, value |-> FALSE]

\* one call _is_valid_breed_url(href)
Validate ==
    /\ ~fn_out.done
    /\ fn_out' = [done |-> TRUE, value |-> is_valid_breed_url(fn_in)]
    /\ UNCHANGED <<fn_in, crawl_vars, io, api_vars>>

ValidatorNext == Validate

SpecValidator == ValidatorInit /\ [][ValidatorNext]_vars

(***************************************************************************)
(* The normaliser applied to two spellings of one name                     *)
(***************************************************************************)
\* display strings have at most this many characters
MaxNameLen == 3

NameChars == {"a", "B", "1", " ", "-", "_", "."}

RECURSIVE strings_upto(_, _)
strings_upto(chars, n) ==
    IF n = 0 THEN {""}
    ELSE strings_upto(chars, n - 1)
         \cup {s \o c : s \in strings_upto(chars, n - 1), c \in chars}

\* the characters that differ from c in letter case or hyphen-versus-space only
style_variants(c) ==
    IF c \in {" ", "-"} THEN {" ", "-"} ELSE {char_lower(c), char_upper(c)}

RECURSIVE spellings(_)
\* the strings that differ from s only in letter case and hyphen versus space
spellings(s) ==
    IF s = "" THEN {""}
    ELSE {c \o r : c \in style_variants(Head(s)), r \in spellings(Tail(s))}

NameSet ==
    strings_upto(NameChars, MaxNameLen)
    \cup {"Shiba Inu", "a_ b", "Shih - Tzu", "a__b", " St. Bernard_"}

NormalizerInit ==
    /\ NotCrawling
    /\ \E s \in NameSet : \E t \in spellings(s) : fn_in = <<s, t>>
    /\ fn_out = [done |-> FALSE, value |-> <<"", "">>]

\* normalize_breed_name applied to both spellings
Normalize ==
    /\ ~fn_out.done
    /\ fn_out' = [done |-> TRUE,
                  value |-> <<normalize_breed_name(fn_in[1]), normalize_breed_name(fn_in[2])>>]
    /\ UNCHANGED <<fn_in, crawl_vars, io, api_vars>>

NormalizerNext == Normalize

SpecNormalizer == NormalizerInit /\ [][NormalizerNext]_vars

(***************************************************************************)
(* _fetch_page_with_retries, attempt by attempt                            *)
(***************************************************************************)
\* callers pass at most this many attempts as max_retries
MaxRetriesArg == 3

FetchUrlSet ==
    { "https://www.akc.org/dog-breeds/",
      "https://www.akc.org/dog-breeds/page/2/",
      "https://www.akc.org/dog-breeds/page/3/",
      "https://www.akc.org/dog-breeds/page/24/",
      "https://www.akc.org/dog-breeds/page/25/" }

\* resp.text of a successful response
BodySet == {"<html><main></main></html>", ""}

GetOkEvent == [ev |-> "get ok", wait |-> 0]

GetErrorEvent == [ev |-> "get error", wait |-> 0]

\* time.sleep(wait), the wait in half seconds
SleepEvent(wait) == [ev |-> "sleep", wait |-> wait]

\* a failed attempt is followed by a sleep, the last one included
retry_always(att, max_retries) == att < max_retries

\* line 102: a failed attempt is followed by a sleep and another attempt
retry(att, max_retries) == att < max_retries - 1

\* line 103: wait = 1 + (attempt * 0.5), in half seconds
backoff(att) == 2 + att

FetcherInit ==
    /\ pc = "get"
    /\ page_num = FIRST_PAGE
    /\ attempt = 0
    /\ breed_links = <<>>
    /\ breed_map = EmptyMap
    /\ seen_urls = {}
    /\ crawl_log = <<>>
    /\ offers = EmptyMap
    /\ NoCall
    /\ EmptyDisk
    /\ fn_in \in [url : FetchUrlSet, max_retries : 0..MaxRetriesArg]
    /\ fn_out = [trace |-> <<>>, result |-> Pending]

\* lines 96-100: the request succeeds and its body is returned
GetOk(body) ==
    /\ pc = "get"
    /\ attempt < fn_in.max_retries
    /\ fn_out' = [trace |-> Append(fn_out.trace, GetOkEvent),
                  result |-> ReturnValue(body)]
    /\ pc' = "returned"
    /\ UNCHANGED <<fn_in, page_num, attempt, breed_links, breed_map, seen_urls,
                   crawl_log, offers, io, api_vars>>

\* lines 101-108: the request raises RequestException
GetFails ==
    /\ pc = "get"
    /\ attempt < fn_in.max_retries
    /\ IF retry(attempt, fn_in.max_retries)
       THEN /\ pc' = "sleep"
            /\ fn_out' = [fn_out EXCEPT !.trace = Append(@, GetErrorEvent)]
       ELSE /\ pc' = "returned"
            /\ fn_out' = [trace |-> Append(fn_out.trace, GetErrorEvent),
                          result |-> ReturnNone]
    /\ UNCHANGED <<fn_in, page_num, attempt, breed_links, breed_map, seen_urls,
                   crawl_log, offers, io, api_vars>>

\* lines 103-105: the sleep before the next attempt
Sleep ==
    /\ pc = "sleep"
    /\ fn_out' = [fn_out EXCEPT !.trace = Append(@, SleepEvent(backoff(attempt)))]
    /\ attempt' = attempt + 1
    /\ pc' = "get"
    /\ UNCHANGED <<fn_in, page_num, breed_links, breed_map, seen_urls, crawl_log,
                   offers, io, api_vars>>

\* line 109: the loop is over without a return
LoopExhausted ==
    /\ pc = "get"
    /\ attempt >= fn_in.max_retries
    /\ fn_out' = [fn_out EXCEPT !.result = ReturnNone]
    /\ pc' = "returned"
    /\ UNCHANGED <<fn_in, page_num, attempt, breed_links, breed_map, seen_urls,
                   crawl_log, offers, io, api_vars>>

FetcherNext ==
    \/ \E body \in BodySet : GetOk(body)
    \/ GetFails
    \/ Sleep
    \/ LoopExhausted

SpecFetcher == FetcherInit /\ [][FetcherNext]_vars

(***************************************************************************)
(* The detail pages the site can serve.  A document says whether it has an *)
(* <h1> and a <body>, and lists its <div> elements in document order, each *)
(* with the text nodes below it and whether it lies inside an element that *)
(* is decomposed (script, style, nav, footer, header, noscript).           *)
(***************************************************************************)
Div(nodes, removed) == [nodes |-> nodes, removed |-> removed]

DetailPage(h1, body, divs) == [h1 |-> h1, body |-> body, divs |-> divs]

RECURSIVE get_text_strip(_)
\* element.get_text(strip=True): the stripped text nodes, concatenated
get_text_strip(nodes) ==
    IF nodes = <<>> THEN ""
    ELSE str_strip(Head(nodes), SpaceSet) \o get_text_strip(Tail(nodes))

NavText == "Sign In Menu Home Dog Breeds Search Akita"

AkitaLead ==
    "  The Akita is a muscular, double-coated dog of ancient Japanese lineage,\n    famous for dignity, courage and loyalty.  "

AkitaFacts ==
    "Temperament: courageous, dignified, profoundly loyal. Life span: 10-14 years. Weight : . Shedding seasonal"

DetailPageSet ==
    { DetailPage(<< <<" Akita ", "Dog Breed">> >>, TRUE,
                 <<Div(<<NavText, AkitaLead, AkitaFacts>>, TRUE),
                   Div(<<AkitaLead, AkitaFacts>>, FALSE),
                   Div(<<AkitaFacts>>, FALSE)>>),
      DetailPage(<<>>, TRUE, <<Div(<<"Akita">>, FALSE)>>) }

\* time.strftime has a resolution of one second
Times == {"2024-01-01 00:00:00", "2024-01-01 00:00:01"}

(***************************************************************************)
(* get_breed_full_profile: extraction from a fetched detail page           *)
(***************************************************************************)
MIN_CONTENT_LEN == 150

MAX_CONTENT_LEN == 1000

MAX_NAV_COUNT == 2

MISSION_MARKER == "founded in 1884"

NAV_WORDS == {"sign in", "menu", "home", "dog breeds", "search"}

\* h1.get_text(strip=True) if h1 else breed_info["display_name"]
page_title(doc, display_name) ==
    IF doc.h1 = <<>> THEN display_name ELSE get_text_strip(Head(doc.h1))

nav_count(lower_text) == Cardinality({skip \in NAV_WORDS : str_contains(lower_text, skip)})

\* lines 317-323 without the navigation-word test of lines 326-330
looks_like_description_any_nav(text, lower_text, lower_name) ==
    /\ str_contains(lower_text, lower_name)
    /\ Len(text) > MIN_CONTENT_LEN
    /\ Len(text) < MAX_CONTENT_LEN
    /\ ~str_contains(lower_text, MISSION_MARKER)

\* lines 317-330: the div is taken as the description
looks_like_description(text, lower_text, lower_name) ==
    /\ str_contains(lower_text, lower_name)
    /\ Len(text) > MIN_CONTENT_LEN
    /\ Len(text) < MAX_CONTENT_LEN
    /\ ~str_contains(lower_text, MISSION_MARKER)
    /\ nav_count(lower_text) <= MAX_NAV_COUNT

div_is_description(text, display_name) ==
    looks_like_description(text, str_lower(text), str_lower(display_name))

RECURSIVE first_description(_, _)
\* the loop over body.find_all('div'): the first div that qualifies, else ""
first_description(divs, display_name) ==
    IF divs = <<>> THEN ""
    ELSE IF /\ ~Head(divs).removed
            /\ div_is_description(get_text_strip(Head(divs).nodes), display_name)
         THEN get_text_strip(Head(divs).nodes)
         ELSE first_description(Tail(divs), display_name)

\* re.sub(r'\s+', ' ', full_content).strip()
clean_content(doc, display_name) ==
    str_strip(re_collapse(IF doc.body THEN first_description(doc.divs, display_name) ELSE "",
                          SpaceSet, " "),
              SpaceSet)

\* the label of each trait pattern: literals separated by \s*
TRAIT_KEYWORDS ==
    { [name |-> "life span", label |-> <<"life", "span">>],
      [name |-> "weight", label |-> <<"weight">>],
      [name |-> "height", label |-> <<"height">>],
      [name |-> "size", label |-> <<"size">>],
      [name |-> "temperament", label |-> <<"temperament">>],
      [name |-> "personality", label |-> <<"personality">>],
      [name |-> "energy level", label |-> <<"energy", "level">>],
      [name |-> "grooming", label |-> <<"grooming">>],
      [name |-> "hypoallergenic", label |-> <<"hypoallergenic">>],
      [name |-> "shedding", label |-> <<"shedding">>] }

\* [:\s]
SepSet == SpaceSet \cup {":"}

\* [^\.]
NonDotSet(s) == CharsOf(s) \ {"."}

\* the first index from i on whose character is outside cls, Len(s) + 1 if none
run_end(s, i, cls) ==
    IF \A j \in i..Len(s) : Char(s, j) \in cls THEN Len(s) + 1
    ELSE CHOOSE j \in i..Len(s) : Char(s, j) \notin cls /\ \A k \in i..(j - 1) : Char(s, k) \in cls

str_at(s, i, lit) == i + Len(lit) - 1 <= Len(s) /\ SubSeq(s, i, i + Len(lit) - 1) = lit

RECURSIVE label_end(_, _, _)
\* where the label matched at i ends (the index after it), 0 if it does not match
label_end(s, i, label) ==
    IF ~str_at(s, i, Head(label)) THEN 0
    ELSE IF Len(label) = 1 THEN i + Len(Head(label))
    ELSE label_end(s, run_end(s, i + Len(Head(label)), SpaceSet), Tail(label))

\* [:\s]+([^\.]+) from e on, the separators ending before g: the separators
\* are taken greedily, and give one character back when nothing but a dot or
\* the end of the text follows them
trait_group(s, e, g) ==
    IF e = 0 \/ g = e THEN [found |-> FALSE, value |-> ""]
    ELSE IF g <= Len(s) /\ Char(s, g) # "."
    THEN [found |-> TRUE, value |-> SubSeq(s, g, run_end(s, g, NonDotSet(s)) - 1)]
    ELSE IF g - e >= 2
    THEN [found |-> TRUE, value |-> Char(s, g - 1)]
    ELSE [found |-> FALSE, value |-> ""]

trait_after(s, e) == trait_group(s, e, run_end(s, e, SepSet))

trait_at(s, i, label) == trait_after(s, label_end(s, i, label))

\* re.search(pattern, lower_content): the leftmost match
re_search_trait(s, label) ==
    IF \A i \in 1..Len(s) : ~trait_at(s, i, label).found
    THEN [found |-> FALSE, value |-> ""]
    ELSE trait_at(s, CHOOSE i \in 1..Len(s) :
                         /\ trait_at(s, i, label).found
                         /\ \A j \in 1..(i - 1) : ~trait_at(s, j, label).found,
                  label)

trait_label(name) == (CHOOSE t \in TRAIT_KEYWORDS : t.name = name).label

\* lines 340-360: the traits dictionary
extract_traits(lower_content) ==
    [name \in {t.name : t \in {k \in TRAIT_KEYWORDS :
                                  re_search_trait(lower_content, k.label).found}}
        |-> str_strip(re_search_trait(lower_content, trait_label(name)).value, SpaceSet)]

profile_of(info, title, content, now) ==
    [breed_name |-> info.display_name,
     url |-> info.akc_url,
     title |-> title,
     content |-> content,
     key_traits |-> extract_traits(str_lower(content)),
     scraped_at |-> now]

\* lines 293-370: the profile extracted from a fetched detail page
extract_profile(info, doc, now) ==
    profile_of(info, page_title(doc, info.display_name),
               clean_content(doc, info.display_name), now)

(***************************************************************************)
(* The extraction applied to one detail page                               *)
(***************************************************************************)
RECURSIVE pad(_)
\* n characters of running text without spaces
pad(n) ==
    IF n <= 0 THEN ""
    ELSE IF n = 1 THEN "x"
    ELSE pad(n \div 2) \o pad(n - n \div 2)

\* a block of exactly len characters made of the given parts
block_text(mention, marker, nav, gap, len) ==
    "The " \o mention \o gap
    \o pad(len - Len(mention) - Len(marker) - Len(nav) - 2 * Len(gap) - 5)
    \o gap \o marker \o nav \o "."

Mentions == {"Akita", "AKITA", ""}

Markers == {"", "Founded in 1884", "founded  in 1884"}

NavRuns == {"", " Home", " home, menu and search"}

\* a whitespace run between words has at most this many characters
MaxGap == 2

Gaps == {SubSeq(" \n   ", 1, n) : n \in 1..MaxGap}

BlockLens == {150, 151, 300, 900, 999, 1000}

BlockSet ==
    {block_text(mention, marker, nav, gap, len) :
        mention \in Mentions, marker \in Markers, nav \in NavRuns, gap \in Gaps,
        len \in BlockLens}

\* the blocks that documents of several divs are made of: descriptions of
\* 300 and 900 characters, one of them mostly navigation words, one holding
\* the marker, a block about something else, and mission statements of 900
\* characters without and with the name, one with the phrase wrapped
PairBlockSet ==
    { block_text("Akita", "", "", " ", 300),
      block_text("Akita", "", "", " ", 900),
      block_text("Akita", "", " home, menu and search", " ", 300),
      block_text("Akita", "Founded in 1884", "", " ", 300),
      block_text("", "", "", " ", 300),
      block_text("", "Founded in 1884", "", " ", 900),
      block_text("Akita", "Founded in 1884", "", " ", 900),
      block_text("Akita", "founded \nin 1884", "", " ", 900) }

\* documents have at most this many divs
MaxDivs == 2

RECURSIVE div_seqs(_, _)
\* the sequences of exactly n kept divs over the blocks
div_seqs(blocks, n) ==
    IF n = 0 THEN {<<>>}
    ELSE {Append(ds, Div(<<b>>, FALSE)) : ds \in div_seqs(blocks, n - 1), b \in blocks}

ExtractorDocSet ==
    {DetailPage(<<>>, TRUE, <<Div(<<b>>, FALSE)>>) : b \in BlockSet}
    \cup {DetailPage(<< <<"Akita">> >>, TRUE, ds) :
             ds \in UNION {div_seqs(PairBlockSet, n) : n \in 2..MaxDivs}}
    \cup {DetailPage(<<>>, body, <<Div(<<b>>, removed), Div(<<c>>, FALSE)>>) :
             body \in BOOLEAN, removed \in BOOLEAN,
             b \in {block_text("Akita", "", "", " ", 300)},
             c \in {block_text("Akita", "", "", "  ", 300), "Akita"}}

AkitaInfo == [display_name |-> "Akita", akc_url |-> "https://www.akc.org/dog-breeds/akita/"]

ExtractorInit ==
    /\ NotCrawling
    /\ fn_in \in ExtractorDocSet
    /\ fn_out = [done |-> FALSE, value |-> EmptyMap]

\* lines 293-370 applied to the fetched page
Extract(now) ==
    /\ ~fn_out.done
    /\ fn_out' = [done |-> TRUE, value |-> extract_profile(AkitaInfo, fn_in, now)]
    /\ UNCHANGED <<fn_in, crawl_vars, io, api_vars>>

ExtractorNext == \E now \in Times : Extract(now)

SpecExtractor == ExtractorInit /\ [][ExtractorNext]_vars

(***************************************************************************)
(* get_breed_list and get_breed_full_profile                               *)
(***************************************************************************)
\* the directory cache is never taken
read_list_cache_miss(file) == [hit |-> FALSE, data |-> EmptyMap]

\* lines 231-238: the cached directory, when the file exists and parses
read_list_cache(file) ==
    IF readable(file)
    THEN [hit |-> TRUE, data |-> load_breed_list(file.data)]
    ELSE [hit |-> FALSE, data |-> EmptyMap]

\* the profile cache is never taken
read_profile_cache_miss(file) == [hit |-> FALSE, data |-> EmptyMap]

\* lines 277-284: the cached profile, when the file exists and parses
read_profile_cache(file) ==
    IF readable(file)
    THEN [hit |-> TRUE, data |-> load_profile(file.data)]
    ELSE [hit |-> FALSE, data |-> EmptyMap]

BeginCall(name, key) ==
    /\ pc = "idle"
    /\ call' = [name |-> name, key |-> key,
                list_ok |-> readable(list_cache),
                prof_ok |-> key \in CallKeys /\ readable(profile_cache[key]),
                list_st |-> list_cache.st,
                prof_st |-> IF key \in CallKeys THEN profile_cache[key].st ELSE "absent",
                was_returned |-> key \in returned]
    /\ io' = Quiet
    /\ computed' = IF computed.name = name /\ computed.key = key
                   THEN computed ELSE NotComputed

\* get_breed_list() up to line 241: return the cache, or start the crawl
ListStep(r) ==
    /\ pc' = IF r.hit THEN "returned" ELSE "page"
    /\ ret' = IF r.hit THEN ReturnValue(r.data) ELSE ret

GetBreedList ==
    /\ BeginCall("get_breed_list", "")
    /\ ListStep(read_list_cache(list_cache))
    /\ UNCHANGED <<page_num, attempt, breed_links, breed_map, seen_urls, crawl_log,
                   offers, fn_vars, list_cache, profile_cache, breed_list, returned>>

\* where a caller of get_breed_list() goes on with the directory
after_list(name) ==
    IF name \in {"get_breed_full_profile", "get_breed_content"} THEN "lookup" ELSE "listed"

\* get_breed_full_profile(key), line 266, up to line 241 of get_breed_list
ProfileListStep(r) ==
    /\ pc' = IF r.hit THEN after_list(call'.name) ELSE "page"
    /\ breed_list' = IF r.hit THEN r.data ELSE breed_list

GetBreedFullProfile(key) ==
    /\ BeginCall("get_breed_full_profile", key)
    /\ ProfileListStep(read_list_cache(list_cache))
    /\ UNCHANGED <<page_num, attempt, breed_links, breed_map, seen_urls, crawl_log,
                   offers, fn_vars, list_cache, profile_cache, ret, returned>>

\* get_breed_content(key), line 398: it calls get_breed_full_profile(key)
GetBreedContent(key) ==
    /\ BeginCall("get_breed_content", key)
    /\ ProfileListStep(read_list_cache(list_cache))
    /\ UNCHANGED <<page_num, attempt, breed_links, breed_map, seen_urls, crawl_log,
                   offers, fn_vars, list_cache, profile_cache, ret, returned>>

\* the display names callers pass to get_normalized_name_from_display
DisplayArgs == {"Akita", "akita"}

\* get_breed_display_names(), line 408: it calls get_breed_list()
GetBreedDisplayNames ==
    /\ BeginCall("get_breed_display_names", "")
    /\ ProfileListStep(read_list_cache(list_cache))
    /\ UNCHANGED <<page_num, attempt, breed_links, breed_map, seen_urls, crawl_log,
                   offers, fn_vars, list_cache, profile_cache, ret, returned>>

\* get_normalized_name_from_display(display_name), line 417; call.key holds
\* the argument
GetNormalizedNameFromDisplay(display_name) ==
    /\ BeginCall("get_normalized_name_from_display", display_name)
    /\ ProfileListStep(read_list_cache(list_cache))
    /\ UNCHANGED <<page_num, attempt, breed_links, breed_map, seen_urls, crawl_log,
                   offers, fn_vars, list_cache, profile_cache, ret, returned>>

\* line 249: get_breed_list returns breed_mapping to its caller
ReturnBreedMapping(cached) ==
    IF call.name = "get_breed_list"
    THEN /\ pc' = "returned"
         /\ ret' = ReturnValue(breed_map)
         /\ computed' = Computed(call.name, call.key, breed_map, cached)
         /\ UNCHANGED breed_list
    ELSE /\ pc' = after_list(call.name)
         /\ breed_list' = breed_map
         /\ UNCHANGED <<ret, computed>>

\* every directory is written to the cache, the empty one as well
cached_always(breed_mapping) == TRUE

\* line 243, "if breed_mapping:": an empty directory is not written
cached_when(breed_mapping) == breed_mapping # EmptyMap

\* lines 243-249 with an empty breed_mapping: nothing is cached
ListCacheSkipped ==
    /\ pc = "done"
    /\ call.name # "none"
    /\ ~cached_when(breed_map)
    /\ ReturnBreedMapping(FALSE)
    /\ UNCHANGED <<page_num, attempt, breed_links, breed_map, seen_urls, crawl_log,
                   offers, fn_vars, list_cache, profile_cache, call, io, returned>>

\* lines 243-249: the directory is written to the cache file
ListCacheWritten ==
    /\ pc = "done"
    /\ call.name # "none"
    /\ cached_when(breed_map)
    /\ list_cache' = OkFile(dump_breed_list(breed_map))
    /\ io' = [io EXCEPT !.wrote = TRUE]
    /\ ReturnBreedMapping(TRUE)
    /\ UNCHANGED <<page_num, attempt, breed_links, breed_map, seen_urls, crawl_log,
                   offers, fn_vars, profile_cache, call, returned>>

\* lines 245-246 raise OSError (not caught): the file is as before when open
\* failed, truncated when the dump failed
ListCacheWriteFails ==
    /\ pc = "done"
    /\ call.name # "none"
    /\ cached_when(breed_map)
    /\ \E after \in {list_cache, CorruptFile} :
          /\ list_cache' = after
          /\ io' = [io EXCEPT !.wrote = (after # list_cache), !.failed = TRUE]
    /\ pc' = "raised"
    /\ UNCHANGED <<page_num, attempt, breed_links, breed_map, seen_urls, crawl_log,
                   offers, fn_vars, profile_cache, call, breed_list, ret, returned,
                   computed>>

\* an empty content is taken for a missing one
content_of_nonempty(result) ==
    IF result.kind = "value" /\ result.value.content # ""
    THEN ReturnValue(result.value.content)
    ELSE ReturnNone

\* lines 399-401: profile.get("content") if profile, else None
content_of(result) ==
    IF result.kind = "value" THEN ReturnValue(result.value.content) ELSE result

Finish(result) ==
    /\ pc' = "returned"
    /\ ret' = IF call.name = "get_breed_content" THEN content_of(result) ELSE result
    /\ UNCHANGED <<page_num, attempt, breed_links, breed_map, seen_urls, crawl_log,
                   offers, fn_vars, list_cache, call, breed_list>>

RECURSIVE sorted_names(_, _)
\* sorted(display_names) over the entries under keys: the least name first
sorted_names(list, keys) ==
    IF keys = {} THEN <<>>
    ELSE LET k == CHOOSE k \in keys :
                      \A j \in keys : ~str_lt(list[j].display_name, list[k].display_name)
         IN <<list[k].display_name>> \o sorted_names(list, keys \ {k})

\* lines 409-410
get_breed_display_names(list) == sorted_names(list, DOMAIN list)

\* the argument is normalized and looked up as a key
get_normalized_name_by_key(list, display_name) ==
    IF normalize_breed_name(display_name) \in DOMAIN list
    THEN ReturnValue(normalize_breed_name(display_name))
    ELSE ReturnNone

\* lines 418-421: the key of the entry with that display name, else None
get_normalized_name_from_display(list, display_name) ==
    IF \E k \in DOMAIN list : list[k].display_name = display_name
    THEN ReturnValue(CHOOSE k \in DOMAIN list : list[k].display_name = display_name)
    ELSE ReturnNone

\* lines 409-410: the sorted display names are returned
DisplayNamesReturn ==
    /\ pc = "listed"
    /\ call.name = "get_breed_display_names"
    /\ Finish(ReturnValue(get_breed_display_names(breed_list)))
    /\ UNCHANGED <<profile_cache, io, returned, computed>>

\* lines 418-421: the key is returned
NormalizedNameReturn ==
    /\ pc = "listed"
    /\ call.name = "get_normalized_name_from_display"
    /\ Finish(get_normalized_name_from_display(breed_list, call.key))
    /\ UNCHANGED <<profile_cache, io, returned, computed>>

\* the profile cache is consulted before the directory
profile_lookup_cache_first(list, key, file) ==
    IF read_profile_cache(file).hit THEN "cached"
    ELSE IF key \notin DOMAIN list THEN "not found"
    ELSE "fetch"

\* lines 267-284: where get_breed_full_profile goes with the directory
profile_lookup(list, key, file) ==
    IF key \notin DOMAIN list THEN "not found"
    ELSE IF read_profile_cache(file).hit THEN "cached"
    ELSE "fetch"

\* lines 267-268: the key is not in the directory
ProfileNotFound ==
    /\ pc = "lookup"
    /\ profile_lookup(breed_list, call.key, profile_cache[call.key]) = "not found"
    /\ Finish(ReturnNone)
    /\ UNCHANGED <<profile_cache, io, returned, computed>>

\* line 274: os.makedirs raises when the cache directory is absent and cannot
\* be created (not caught)
MakedirsFails ==
    /\ pc = "lookup"
    /\ profile_lookup(breed_list, call.key, profile_cache[call.key]) # "not found"
    /\ \A k \in CallKeys : profile_cache[k].st = "absent"
    /\ pc' = "raised"
    /\ UNCHANGED <<page_num, attempt, breed_links, breed_map, seen_urls, crawl_log,
                   offers, fn_vars, list_cache, profile_cache, call, breed_list, ret,
                   io, returned, computed>>

\* lines 277-282: the profile cache is read and returned
ProfileCached ==
    /\ pc = "lookup"
    /\ profile_lookup(breed_list, call.key, profile_cache[call.key]) = "cached"
    /\ Finish(ReturnValue(read_profile_cache(profile_cache[call.key]).data))
    /\ returned' = returned \cup {call.key}
    /\ io' = [io EXCEPT !.looked = TRUE]
    /\ UNCHANGED <<profile_cache, computed>>

\* lines 290-292, 382-384: the request for the detail page fails
DetailFetchFails ==
    /\ pc = "lookup"
    /\ profile_lookup(breed_list, call.key, profile_cache[call.key]) = "fetch"
    /\ Finish(ReturnNone)
    /\ io' = [io EXCEPT !.net = TRUE, !.looked = TRUE]
    /\ UNCHANGED <<profile_cache, returned, computed>>

\* lines 372-378: the profile is written to its cache file; a failure is
\* swallowed, leaving the file as before or truncated
write_profile_cache(file, profile, outcome) ==
    CASE outcome = "written" -> OkFile(dump_profile(profile))
      [] outcome = "not opened" -> file
      [] outcome = "truncated" -> CorruptFile

WriteOutcomes == {"written", "not opened", "truncated"}

ProfileStep(doc, profile, outcome) ==
    /\ Finish(ReturnValue(profile))
    /\ profile_cache' = [profile_cache EXCEPT
                           ![call.key] = write_profile_cache(@, profile, outcome)]
    /\ io' = [net |-> TRUE, wrote |-> outcome # "not opened",
              failed |-> outcome # "written", looked |-> TRUE, page |-> doc]
    /\ returned' = returned \cup {call.key}
    /\ computed' = IF call.name = "get_breed_full_profile"
                   THEN Computed(call.name, call.key, profile, outcome = "written")
                   ELSE NotComputed

\* lines 290-380: the detail page is fetched, the profile extracted and cached
DetailFetchOk(doc, now, outcome) ==
    /\ pc = "lookup"
    /\ profile_lookup(breed_list, call.key, profile_cache[call.key]) = "fetch"
    /\ ProfileStep(doc, extract_profile(breed_list[call.key], doc, now), outcome)

\* the caller takes the result (or the exception) of the call
Return ==
    /\ pc \in {"returned", "raised"}
    /\ call.name # "none"
    /\ pc' = "idle"
    /\ page_num' = FIRST_PAGE
    /\ attempt' = 0
    /\ breed_links' = <<>>
    /\ breed_map' = EmptyMap
    /\ seen_urls' = {}
    /\ crawl_log' = <<>>
    /\ offers' = EmptyMap
    /\ call' = IdleCall
    /\ breed_list' = EmptyMap
    /\ ret' = Pending
    /\ io' = Quiet
    /\ computed' = IF computed.fresh THEN [computed EXCEPT !.fresh = FALSE]
                   ELSE NotComputed
    /\ UNCHANGED <<fn_vars, list_cache, profile_cache, returned>>

\* between calls, the directory cache file is deleted or damaged
ListCacheDamaged ==
    /\ pc = "idle"
    /\ list_cache.st = "ok"
    /\ list_cache' \in {AbsentFile, CorruptFile}
    /\ computed' = NotComputed
    /\ UNCHANGED <<crawl_vars, fn_vars, profile_cache, call, breed_list, ret, io,
                   returned>>

\* between calls, a profile cache file is deleted or damaged
ProfileCacheDamaged(key) ==
    /\ pc = "idle"
    /\ profile_cache[key].st = "ok"
    /\ \E after \in {AbsentFile, CorruptFile} :
          profile_cache' = [profile_cache EXCEPT ![key] = after]
    /\ computed' = NotComputed
    /\ UNCHANGED <<crawl_vars, fn_vars, list_cache, call, breed_list, ret, io,
                   returned>>

\* the index pages served while the public calls are exercised
ApiPageSet ==
    { Page(TRUE, <<Card(<<aAkita>>, TRUE), Card(<<aPug>>, TRUE), Card(<<aNext>>, TRUE)>>),
      Page(FALSE, <<Bare(aAkitaNoSlash, FALSE), Bare(aGroup, FALSE)>>),
      Page(FALSE, <<Bare(aNext, FALSE), Bare(aPug, FALSE)>>) }

Init ==
    /\ NotCrawling
    /\ fn_in = ""
    /\ fn_out = ""

Next ==
    \/ GetBreedList
    \/ \E key \in CallKeys : GetBreedFullProfile(key)
    \/ \E key \in CallKeys : GetBreedContent(key)
    \/ GetBreedDisplayNames
    \/ \E display_name \in DisplayArgs : GetNormalizedNameFromDisplay(display_name)
    \/ DisplayNamesReturn
    \/ NormalizedNameReturn
    \/ \E page \in ApiPageSet : FetchOk(page)
    \/ FetchFail
    \/ ProcessLink
    \/ NextPage
    \/ ScrapeReturn
    \/ ListCacheSkipped
    \/ ListCacheWritten
    \/ ListCacheWriteFails
    \/ ProfileNotFound
    \/ MakedirsFails
    \/ ProfileCached
    \/ DetailFetchFails
    \/ \E doc \in DetailPageSet, now \in Times, outcome \in WriteOutcomes :
          DetailFetchOk(doc, now, outcome)
    \/ Return
    \/ ListCacheDamaged
    \/ \E key \in CallKeys : ProfileCacheDamaged(key)

Spec == Init /\ [][Next]_vars

(***************************************************************************)
(* Properties of the link discovery (checked under SpecCrawl)              *)
(***************************************************************************)
\* the link the next ProcessLink step handles
cur_link == Head(breed_links)

cur_url == urljoin_base(cur_link.href)

cur_name == display_name_of(cur_link)

cur_key == normalize_breed_name(cur_name)

\* the next step processes a new URL whose key is already in the directory
Colliding ==
    /\ pc = "links"
    /\ breed_links # <<>>
    /\ cur_url \notin seen_urls
    /\ cur_key # ""
    /\ cur_key \in DOMAIN breed_map

\* the entry the shorter-name-wins policy leaves under the key of a collision
shorter_wins(existing, display_name, full_url) ==
    IF Len(display_name) < Len(existing.display_name)
    THEN [display_name |-> display_name, akc_url |-> full_url]
    ELSE existing

\* C1: a step that processes a link whose key is already in the directory
\* keeps one entry under that key, the one with the shorter display_name (the
\* existing one unless the new name is strictly shorter), changes no other
\* entry, and leaves the run going with the remaining links.
C1_ShorterNameWins ==
    [][Colliding =>
        /\ pc' = "links"
        /\ breed_links' = Tail(breed_links)
        /\ breed_map' = [breed_map EXCEPT
                            ![cur_key] = shorter_wins(@, cur_name, cur_url)]]_vars

RECURSIVE build_directory(_, _, _)
\* the directory the discovery policy builds from a sequence of links:
\* a URL already seen is skipped, an empty key is dropped, and on a key
\* collision the shorter display name wins
build_directory(links, map, seen) ==
    IF links = <<>> THEN map
    ELSE LET link == Head(links)
             url == urljoin_base(link.href)
             name == display_name_of(link)
             key == normalize_breed_name(name)
             entry == [display_name |-> name, akc_url |-> url]
         IN IF url \in seen THEN build_directory(Tail(links), map, seen)
            ELSE IF key = "" THEN build_directory(Tail(links), map, seen \cup {url})
            ELSE IF key \notin DOMAIN map
            THEN build_directory(Tail(links), map_put(map, key, entry), seen \cup {url})
            ELSE build_directory(Tail(links),
                                 [map EXCEPT ![key] = shorter_wins(@, name, url)],
                                 seen \cup {url})

\* the links of the pages of the log that were fetched, in page order
fetched_links(log) ==
    seq_concat([i \in 1..Len(log) |-> IF log[i].ok THEN log[i].links ELSE <<>>])

RunOver == pc \in {"done", "raised"}

\* C2: whichever pages fail on all retries, the run ends by returning, it has
\* visited every page 1..25 once and in increasing order, and the directory
\* it returns is the one built from the links of the fetched pages only.
C2_FailedPagesSkipped ==
    RunOver =>
        /\ pc = "done"
        /\ Len(crawl_log) = LAST_PAGE
        /\ \A i \in 1..Len(crawl_log) : crawl_log[i].page = i
        /\ breed_map = build_directory(fetched_links(crawl_log), EmptyMap, {})

\* the keys whose entry points at url
keys_of_url(url) == {k \in DOMAIN breed_map : breed_map[k].akc_url = url}

\* the key of the first link offered for url
first_key(url) == normalize_breed_name(Head(offers[url]).name)

\* url was offered at least twice, under different display names
OfferedTwice(url) ==
    \E i, j \in 1..Len(offers[url]) : offers[url][i].name # offers[url][j].name

\* C3 as stated: every URL offered under two different texts has exactly one
\* entry, keyed by the normalized name of its first occurrence.
C3_ExactlyOneEntryPerUrl ==
    \A url \in DOMAIN offers :
        OfferedTwice(url) => keys_of_url(url) = {first_key(url)}

\* C3 amended: of the links offered for one URL only the first is processed,
\* every later one is skipped; the URL has at most one entry, which is keyed
\* by the normalized name of the first occurrence and carries its display
\* name; it has exactly one unless that key is empty or is held by the entry
\* of another URL.
C3_AtMostOneEntryPerUrl ==
    \A url \in DOMAIN offers :
        /\ url \in seen_urls
        /\ \A i \in 1..Len(offers[url]) : offers[url][i].skipped <=> (i > 1)
        /\ keys_of_url(url) \subseteq {first_key(url)}
        /\ \A k \in keys_of_url(url) : breed_map[k].display_name = Head(offers[url]).name
        /\ keys_of_url(url) = {} =>
              \/ first_key(url) = ""
              \/ /\ first_key(url) \in DOMAIN breed_map
                 /\ breed_map[first_key(url)].akc_url # url

\* a URL offered first under one text and then under a text with another key
\* has one entry, under the first key
C3_Witness ==
    \E url \in DOMAIN offers :
        /\ Len(offers[url]) >= 2
        /\ normalize_breed_name(offers[url][2].name) \notin {"", first_key(url)}
        /\ keys_of_url(url) = {first_key(url)}

\* every anchor of a document that has an href, in document order
doc_anchors(doc) == all_links(doc.elems)

anchor_href(a) == str_strip(a.href, SpaceSet)

anchor_url(a) == urljoin_base(anchor_href(a))

anchor_key(a) ==
    normalize_breed_name(display_name_of([text |-> a.text, href |-> anchor_href(a)]))

valid_anchors(doc) ==
    {i \in 1..Len(doc_anchors(doc)) : is_valid_breed_url(anchor_href(doc_anchors(doc)[i]))}

\* every valid link of the document is one the extractor finds
AllLinksFound(doc) == Len(page_breed_links(doc)) = Cardinality(valid_anchors(doc))

\* page 1 of the scenario: three links, two of them valid breed links to
\* two breeds, the third a pagination link
ScenarioPage1(doc) ==
    LET as == doc_anchors(doc)
        valid == valid_anchors(doc)
    IN /\ Len(as) = 3
       /\ Cardinality(valid) = 2
       /\ \E i \in 1..3 : i \notin valid /\ str_contains(as[i].href, "/page/")
       /\ \A i, j \in valid : i # j =>
             /\ anchor_url(as[i]) # anchor_url(as[j])
             /\ anchor_key(as[i]) # anchor_key(as[j])
       /\ \A i \in valid : anchor_key(as[i]) # ""
       /\ AllLinksFound(doc)

\* page 2 of the scenario: two valid links, one to a further breed and one
\* with the URL of a page-1 link (under any text)
ScenarioPage2(doc1, doc) ==
    LET as == doc_anchors(doc)
        old == {anchor_url(doc_anchors(doc1)[i]) : i \in valid_anchors(doc1)}
        oldKeys == {anchor_key(doc_anchors(doc1)[i]) : i \in valid_anchors(doc1)}
    IN /\ Len(as) = 2
       /\ valid_anchors(doc) = {1, 2}
       /\ \E i, j \in 1..2 :
             /\ i # j
             /\ anchor_url(as[i]) \in old
             /\ anchor_url(as[j]) \notin old
             /\ anchor_key(as[j]) \notin oldKeys \cup {""}
       /\ AllLinksFound(doc)

Scenario ==
    /\ Len(crawl_log) = LAST_PAGE
    /\ \A i \in 1..Len(crawl_log) : crawl_log[i].ok <=> (i <= 2)
    /\ ScenarioPage1(crawl_log[1].doc)
    /\ ScenarioPage2(crawl_log[1].doc, crawl_log[2].doc)

\* C4: on the two-page index of the scenario (2 valid breed links and a
\* pagination link, then 1 further breed link and a duplicate, every other
\* page unavailable) the run returns a directory of exactly 3 entries.
C4_ScenarioThreeEntries ==
    (RunOver /\ Scenario) => (pc = "done" /\ Cardinality(DOMAIN breed_map) = 3)

C4_Witness == pc = "done" /\ Scenario /\ Cardinality(DOMAIN breed_map) = 3

\* the hrefs the validator accepted among the anchors of the fetched pages
accepted_hrefs ==
    UNION {{anchor_href(doc_anchors(crawl_log[i].doc)[j]) :
               j \in valid_anchors(crawl_log[i].doc)} : i \in 1..Len(crawl_log)}

FromAcceptedHref(url) == \E h \in accepted_hrefs : urljoin_base(h) = url

\* the path segments after the first dog-breeds segment, empty ones dropped
segments_after_index(path) ==
    LET parts == str_split(path, "/")
        at == {i \in 1..Len(parts) : parts[i] = "dog-breeds"}
        first == CHOOSE i \in at : \A j \in at : i <= j
    IN IF at = {} THEN <<>>
       ELSE seq_filter(parts, {i \in 1..Len(parts) : i > first /\ parts[i] # ""})

\* the path of url is the path of one breed page: not a pagination path and
\* not a category or group path
BreedPagePath(path) ==
    /\ ~str_contains(path, "/page/")
    /\ Len(segments_after_index(path)) = 1
    /\ str_lower(segments_after_index(path)[1]) \notin EXCLUDED_SLUGS

href_segments(href) == segments_after_index(urlparse(href).path)

\* C6: the validator returns false for every href whose path has more than
\* one segment after the /dog-breeds/ segment (pagination, category and
\* group paths) and for every href whose path has no segment after it.
C6_OneSegmentOnly ==
    (fn_out.done /\ Len(href_segments(fn_in)) # 1) => ~fn_out.value

\* a pagination path with a well-formed last segment was rejected
C6_Witness ==
    /\ fn_out.done
    /\ ~fn_out.value
    /\ Len(href_segments(fn_in)) = 2
    /\ href_segments(fn_in)[1] = "page"
    /\ valid_slug(href_segments(fn_in)[2])

\* the reasons for which the claim has a slug rejected, on the lowercased slug
SlugRejected(slug) ==
    \/ Len(slug) < 3
    \/ str_isdigit(slug)
    \/ str_startswith(slug, "page")
    \/ slug \in EXCLUDED_SLUGS
    \/ \E i \in 1..Len(slug) : Char(slug, i) \notin LowerSet \cup DigitSet \cup {"-"}

\* the path is /dog-breeds/<slug>, up to trailing slashes
PathIsBreedSlug(path) ==
    /\ Len(segments_after_index(path)) = 1
    /\ str_rstrip(path, {"/"}) = "/dog-breeds/" \o segments_after_index(path)[1]

\* C7: the validator returns true only for a path /dog-breeds/<slug> whose
\* slug, lowercased, has at least 3 characters, is not purely numeric, does
\* not begin with 'page', is not in EXCLUDED_SLUGS and has no character
\* outside [a-z0-9-]; an href whose slug fails one of these is rejected.
C7_SlugRules ==
    (fn_out.done /\ fn_out.value) =>
        /\ PathIsBreedSlug(urlparse(fn_in).path)
        /\ ~SlugRejected(str_lower(href_segments(fn_in)[1]))

\* an absolute href whose slug has a digit and a hyphen was accepted
C7_Witness ==
    /\ fn_out.done
    /\ fn_out.value
    /\ urlparse(fn_in).netloc # ""
    /\ \E i, j \in 1..Len(href_segments(fn_in)[1]) :
          /\ Char(href_segments(fn_in)[1], i) \in DigitSet
          /\ Char(href_segments(fn_in)[1], j) = "-"

(***************************************************************************)
(* Properties of the normaliser (checked under SpecNormalizer)             *)
(***************************************************************************)
\* C8: two display strings that differ only in letter case and in hyphens
\* versus spaces normalize to the same key; 'Shiba Inu' and 'shiba-inu'
\* both give 'shiba_inu'.
C8_SpellingsShareKey ==
    fn_out.done =>
        /\ fn_out.value[1] = fn_out.value[2]
        /\ fn_in = <<"Shiba Inu", "shiba-inu">> => fn_out.value[1] = "shiba_inu"

C8_Witness ==
    /\ fn_out.done
    /\ fn_in = <<"Shiba Inu", "shiba-inu">>
    /\ fn_out.value = <<"shiba_inu", "shiba_inu">>

(***************************************************************************)
(* Properties of the two cache tiers (checked under Spec)                  *)
(***************************************************************************)
Crawling == pc \in {"page", "links", "done"}

\* the directory held by the cache file
cached_directory == load_breed_list(list_cache.data)

\* the profile held by the cache file of the key of the running call
cached_profile == load_profile(profile_cache[call.key].data)

\* C9: a get_breed_list call that found the directory cache file present and
\* parseable returns the contents of the file, has issued no network request
\* and has written nothing; and whenever a public call is inside the discovery
\* crawl, its read of the directory cache had found the file absent or
\* unparseable.
C9_CachedDirectoryServed ==
    /\ (call.name = "get_breed_list" /\ call.list_ok) =>
          /\ pc = "returned"
          /\ ret = ReturnValue(cached_directory)
          /\ ~io.net
          /\ ~io.wrote
    /\ (call.name # "none" /\ Crawling) => ~call.list_ok

C9_Witness ==
    /\ call.name = "get_breed_list"
    /\ call.list_ok
    /\ pc = "returned"
    /\ DOMAIN ret.value # {}

\* a later call for a key whose profile was returned before, started with
\* the profile cache file of the key present and parseable
LaterProfileCall ==
    /\ call.name = "get_breed_full_profile"
    /\ call.was_returned
    /\ call.prof_ok

\* C10 as stated: once get_breed_full_profile has returned a profile for a
\* key, a later call for that key which finds the profile cache file present
\* and parseable issues no network request, does not raise, and returns the
\* cached profile.
C10_ServedFromProfileCache ==
    LaterProfileCall =>
        /\ ~io.net
        /\ pc # "raised"
        /\ pc = "returned" => ret = ReturnValue(cached_profile)

\* C10 amended: such a later call which moreover finds the directory cache
\* file present and parseable issues no network request, writes nothing and
\* does not raise; it returns the cached profile when the cached directory
\* lists the key, and None when it does not.
C10_ServedWhenBothCachesReadable ==
    (LaterProfileCall /\ call.list_ok) =>
        /\ ~io.net
        /\ ~io.wrote
        /\ pc \in {"lookup", "returned"}
        /\ pc = "returned" =>
              ret = IF call.key \in DOMAIN cached_directory
                    THEN ReturnValue(cached_profile)
                    ELSE ReturnNone

C10_Witness ==
    /\ LaterProfileCall
    /\ call.list_ok
    /\ pc = "returned"
    /\ ret = ReturnValue(cached_profile)
    /\ ret.value.content # ""

\* C11: a call in which a cache write failed does not raise; get_breed_list
\* returns the directory it has just discovered, and get_breed_full_profile
\* returns the profile it has just extracted.
C11_WriteFailureNeverFails ==
    (call.name # "none" /\ io.failed) =>
        /\ pc # "raised"
        /\ (pc = "returned" /\ call.name = "get_breed_list") =>
              ret = ReturnValue(breed_map)
        /\ (pc = "returned" /\ call.name = "get_breed_full_profile") =>
              /\ ret.kind = "value"
              /\ ret.value.url = breed_list[call.key].akc_url

\* the running call got past the discovery crawl with a non-empty directory
Discovered == pc \in {"lookup", "returned"} /\ ~call.list_ok /\ breed_map # EmptyMap

\* C12: a call that found a cache file present but unparseable does not
\* raise.  When it was the directory cache, the call runs the discovery
\* crawl, and once the crawl has produced a directory the file holds that
\* directory.  When it was the profile cache of a key the directory lists,
\* the call requests the detail page, and once a profile is returned and its
\* write did not fail the file holds that profile.
C12_CorruptCacheIsMiss ==
    /\ (call.name # "none" /\ call.list_st = "corrupt") =>
          /\ pc # "raised"
          /\ pc = "returned" => io.net
          /\ Discovered => list_cache = OkFile(dump_breed_list(breed_map))
    /\ (call.name = "get_breed_full_profile" /\ call.prof_st = "corrupt") =>
          /\ pc # "raised"
          /\ (pc = "returned" /\ ret.kind = "value") =>
                /\ io.net
                /\ ~io.failed => profile_cache[call.key] = OkFile(dump_profile(ret.value))

\* the running call has the directory and its key is not in it
KeyAbsent == pc = "lookup" /\ call.key \notin DOMAIN breed_list

\* C13: once get_breed_full_profile (called directly or by
\* get_breed_content) has the directory and the key is not in it, the call
\* returns None: it does not raise, requests no detail page, and neither
\* looks at nor changes any profile cache file, whether or not a file for
\* the key exists.
C13_AbsentKeyReturnsNone ==
    [][KeyAbsent =>
        /\ pc' = "returned"
        /\ ret' = ReturnNone
        /\ UNCHANGED <<profile_cache, io>>]_vars

\* get_breed_content, through get_breed_full_profile, has returned None for
\* an absent key whose profile cache file is on disk and parseable, without
\* a request or a look at the file in the whole call
C13_Witness ==
    /\ call.name = "get_breed_content"
    /\ pc = "returned"
    /\ call.key \notin DOMAIN breed_list
    /\ call.prof_ok
    /\ ret = ReturnNone
    /\ io = Quiet

ProfileCall == call.name \in {"get_breed_full_profile", "get_breed_content"}

\* the running call looked for the profile cache file and returned None:
\* its request for the detail page failed
DetailFetchFailed == ProfileCall /\ pc = "returned" /\ io.looked /\ ret = ReturnNone

\* C14: get_breed_full_profile never raises to its caller; when the request
\* for the detail page fails the call returns None, the profile cache file
\* of the key is as it was when the call started, and the directory is the
\* one the directory cache file holds.
C14_ProfileNeverRaises ==
    /\ ProfileCall => pc # "raised"
    /\ DetailFetchFailed =>
          /\ profile_cache[call.key].st = call.prof_st
          /\ readable(list_cache)
          /\ cached_directory = breed_list

(***************************************************************************)
(* Properties of the extraction (checked under SpecExtractor)              *)
(***************************************************************************)
\* the content of the profile the extraction returned
content == fn_out.value.content

\* C15: the content of an extracted profile never contains the mission
\* marker phrase, compared case-insensitively.
C15_NoMissionMarker ==
    fn_out.done => ~str_contains(str_lower(content), MISSION_MARKER)

\* C16: a non-empty content of an extracted profile has more than 150 and
\* fewer than 1000 characters.
C16_ContentInsideWindow ==
    (fn_out.done /\ content # "") =>
        (Len(content) > MIN_CONTENT_LEN /\ Len(content) < MAX_CONTENT_LEN)

\* the text of the i-th div of the page given to the extraction
div_text(i) == get_text_strip(fn_in.divs[i].nodes)

\* the text as it reads once whitespace is normalised
collapsed(text) == str_strip(re_collapse(text, SpaceSet, " "), SpaceSet)

holds_marker(text) == str_contains(str_lower(collapsed(text)), MISSION_MARKER)

\* a 900-character mission-statement div
is_mission_div(i) == Len(div_text(i)) = 900 /\ holds_marker(div_text(i))

\* a 300-character breed-description div that mentions the display name
is_description_div(i) ==
    /\ Len(div_text(i)) = 300
    /\ str_contains(str_lower(div_text(i)), str_lower(AkitaInfo.display_name))
    /\ ~holds_marker(div_text(i))

\* the page is made of the mission div i and the description div j
mission_and_description(i, j) ==
    /\ fn_in.body
    /\ Len(fn_in.divs) = 2
    /\ {i, j} = {1, 2}
    /\ ~fn_in.divs[i].removed /\ ~fn_in.divs[j].removed
    /\ is_mission_div(i)
    /\ is_description_div(j)

\* C17: on a page made of a 900-character mission-statement div and a
\* 300-character description div that mentions the display name, the content
\* of the extracted profile is the description block, in either order.
C17_DescriptionBlockReturned ==
    \A i, j \in 1..2 :
        (fn_out.done /\ mission_and_description(i, j)) => content = collapsed(div_text(j))

\* (a) the text contains the display name, compared case-insensitively
mentions_name(text) ==
    str_contains(str_lower(text), str_lower(AkitaInfo.display_name))

\* (b) the length of the text is inside the window
inside_window(text) == Len(text) > MIN_CONTENT_LEN /\ Len(text) < MAX_CONTENT_LEN

\* (c) the text does not contain the mission marker phrase
free_of_marker(text) == ~str_contains(str_lower(text), MISSION_MARKER)

\* the text names at most two of the navigation words
few_nav_words(text) ==
    Cardinality({w \in NAV_WORDS : str_contains(str_lower(text), w)}) <= MAX_NAV_COUNT

\* the i-th div is left in the document and satisfies (a), (b) and (c)
satisfies_abc(i) ==
    /\ ~fn_in.divs[i].removed
    /\ mentions_name(div_text(i))
    /\ inside_window(div_text(i))
    /\ free_of_marker(div_text(i))

\* ... and lies in the body and is not mostly navigation text
qualifies(i) == fn_in.body /\ satisfies_abc(i) /\ few_nav_words(div_text(i))

DivIndexes == 1..Len(fn_in.divs)

\* C20 as stated: the content is the text of the first div, in document
\* order, that satisfies (a), (b) and (c); it is empty only when no div does.
C20_FirstOfThreeConditions ==
    fn_out.done =>
        /\ \A i \in DivIndexes :
              (satisfies_abc(i) /\ \A j \in 1..(i - 1) : ~satisfies_abc(j))
                  => content = collapsed(div_text(i))
        /\ (\A i \in DivIndexes : ~satisfies_abc(i)) => content = ""

\* C20: the content is the whitespace-normalised text of the first div of
\* the body, in document order, that satisfies (a), (b), (c) and names at
\* most two navigation words; no such div is passed over in favour of a
\* later one or of empty content, and without such a div the content is empty.
C20_FirstQualifyingDivWins ==
    fn_out.done =>
        /\ \A i \in DivIndexes :
              (qualifies(i) /\ \A j \in 1..(i - 1) : ~qualifies(j))
                  => content = collapsed(div_text(i))
        /\ (\A i \in DivIndexes : ~qualifies(i)) => content = ""

\* a div that satisfies (a), (b) and (c) but is mostly navigation text was
\* passed over, and the div after it was chosen
C20_Witness ==
    /\ fn_out.done
    /\ Len(fn_in.divs) = 2
    /\ satisfies_abc(1) /\ ~qualifies(1)
    /\ qualifies(2)
    /\ content = collapsed(div_text(2))
    /\ content # ""

(***************************************************************************)
(* Properties of the cache round trip (checked under Spec)                 *)
(***************************************************************************)
\* this step ends the call that follows, as the next call of the same
\* operation (and key), a call that obtained its value from the network
NextCallEnds ==
    /\ pc \notin {"returned", "raised"}
    /\ pc' \in {"returned", "raised"}
    /\ computed.name \in {"get_breed_list", "get_breed_full_profile"}
    /\ ~computed.fresh
    /\ call'.name = computed.name
    /\ call'.key = computed.key

\* the call returns the value the call before it computed, without a request
SameValueFromCache ==
    /\ pc' = "returned"
    /\ ret' = ReturnValue(computed.value)
    /\ ~io'.net

\* C18 as stated: the value a call of get_breed_list (get_breed_full_profile
\* for a key) computed from the network and returned is returned again, equal
\* field for field, by the next call of the same operation, without any
\* network access.
C18_NextCallSameValue == [][NextCallEnds => SameValueFromCache]_vars

\* C18: when the computing call left its value in the cache file (the
\* directory was not empty, the profile was written) and no cache file has
\* been deleted or damaged since, the next call of the same operation returns
\* an equal value, scraped_at included, without any network access.
C18_CachedValueRoundTrip ==
    [][(NextCallEnds /\ computed.cached) => SameValueFromCache]_vars

\* a later get_breed_full_profile call has returned, from the cache file and
\* without a request, the profile the call before it extracted and cached
C18_Witness ==
    /\ pc = "returned"
    /\ call.name = "get_breed_full_profile"
    /\ computed.name = call.name /\ computed.key = call.key
    /\ ~computed.fresh
    /\ computed.cached
    /\ ret = ReturnValue(computed.value)
    /\ ret.value.scraped_at \in Times
    /\ ~io.net

(***************************************************************************)
(* Properties of the display names (checked under Spec)                    *)
(***************************************************************************)
\* the sequence of names is in ascending order
ascending(names) ==
    \A i, j \in 1..Len(names) : i < j => ~str_lt(names[j], names[i])

\* the sequence holds one name per entry of the directory
one_per_entry(names, list) ==
    /\ Len(names) = Cardinality(DOMAIN list)
    /\ \A k \in DOMAIN list :
          Cardinality({i \in 1..Len(names) : names[i] = list[k].display_name})
              = Cardinality({j \in DOMAIN list :
                                list[j].display_name = list[k].display_name})

\* every key is non-empty and is the normalized display name of its entry
keyed_by_normalized_name(list) ==
    \A k \in DOMAIN list :
        k # "" /\ k = normalize_breed_name(list[k].display_name)

NamesReturned == pc = "returned" /\ call.name = "get_breed_display_names"

KeyReturned == pc = "returned" /\ call.name = "get_normalized_name_from_display"

\* C19: the directory a crawl produces, and the directory the display-name
\* calls work on, has only non-empty keys, each the normalized display name
\* of its entry; get_breed_display_names returns one display name per entry
\* in ascending order; get_normalized_name_from_display returns the key of
\* the entry with the given display name, and None when no entry has it.
C19_DisplayNamesAndKeys ==
    /\ pc = "done" => keyed_by_normalized_name(breed_map)
    /\ pc \in {"listed", "returned"} => keyed_by_normalized_name(breed_list)
    /\ NamesReturned =>
          /\ ret.kind = "value"
          /\ ascending(ret.value)
          /\ one_per_entry(ret.value, breed_list)
    /\ KeyReturned =>
          /\ \A k \in DOMAIN breed_list :
                breed_list[k].display_name = call.key => ret = ReturnValue(k)
          /\ (\A k \in DOMAIN breed_list : breed_list[k].display_name # call.key)
                => ret = ReturnNone

\* the sorted names of a directory of two entries have been returned, in
\* code point order
C19_Witness ==
    /\ NamesReturned
    /\ Cardinality(DOMAIN breed_list) = 2
    /\ ret.value = <<"Pug", "akita">>

\* the key of an entry has been returned for its display name
C19_KeyWitness ==
    /\ KeyReturned
    /\ call.key = "Akita"
    /\ ret = ReturnValue("akita")
    /\ breed_list["akita"].display_name = "Akita"

(***************************************************************************)
(* Properties of a page without a description (checked under Spec)         *)
(***************************************************************************)
\* no div left in the body of the page qualifies as the description
no_block(doc, display_name) ==
    \/ ~doc.body
    \/ \A i \in 1..Len(doc.divs) :
          \/ doc.divs[i].removed
          \/ ~div_is_description(get_text_strip(doc.divs[i].nodes), display_name)

\* the running call fetched a detail page in which no block qualifies
FetchedNoBlock ==
    /\ pc = "returned"
    /\ io.page # NoPage
    /\ no_block(io.page, breed_list[call.key].display_name)

\* a profile without content and without traits
empty_profile(p) == p.content = "" /\ p.key_traits = EmptyMap

\* what the call returned is the empty-content profile, or for
\* get_breed_content the empty string
EmptyContentReturned ==
    IF call.name = "get_breed_content"
    THEN ret = ReturnValue("")
    ELSE ret.kind = "value" /\ empty_profile(ret.value)

\* the profile cache file of the key holds an empty-content profile, the one
\* get_breed_full_profile returned
EmptyProfileCached ==
    /\ readable(profile_cache[call.key])
    /\ empty_profile(load_profile(profile_cache[call.key].data))
    /\ call.name = "get_breed_full_profile"
          => load_profile(profile_cache[call.key].data) = ret.value

\* the call before this one extracted an empty-content profile
EmptyProfileComputed ==
    /\ computed.name = "get_breed_full_profile"
    /\ empty_profile(computed.value)

\* C21 as stated: a call that fetched a page in which no block qualifies
\* returns the empty-content profile (get_breed_content the empty string),
\* the profile is in the cache file, and the next call for the key returns
\* the same profile from the cache.
C21_EmptyContentProfile ==
    /\ [](FetchedNoBlock => (EmptyContentReturned /\ EmptyProfileCached))
    /\ [][(NextCallEnds /\ EmptyProfileComputed) => SameValueFromCache]_vars

\* C21: a call that fetched a page in which no block qualifies returns the
\* empty-content profile without traits (get_breed_content the empty string,
\* not None); when its cache write did not fail the profile is in the cache
\* file, and the next call for the key, with no cache file damaged, returns
\* the same profile from the cache without a request.
C21_EmptyContentProfileWhenWritten ==
    /\ [](FetchedNoBlock => EmptyContentReturned)
    /\ []((FetchedNoBlock /\ ~io.failed) => EmptyProfileCached)
    /\ [][(NextCallEnds /\ EmptyProfileComputed /\ computed.cached)
             => SameValueFromCache]_vars

\* get_breed_content has fetched a page without a description, cached the
\* empty-content profile and returned the empty string
C21_Witness ==
    /\ FetchedNoBlock
    /\ call.name = "get_breed_content"
    /\ ret = ReturnValue("")
    /\ ~io.failed
    /\ EmptyProfileCached

(***************************************************************************)
(* Properties of the page fetcher (checked under SpecFetcher)              *)
(***************************************************************************)
trace == fn_out.trace

requests == {i \in 1..Len(trace) : trace[i].ev \in {"get ok", "get error"}}

sleeps == {i \in 1..Len(trace) : trace[i].ev = "sleep"}

FetcherReturned == pc = "returned"

\* C22: the fetcher issues at most max_retries requests for the URL; it
\* returns a body exactly when the last request issued succeeded, and that is
\* the only one that did; it returns None only when max_retries requests were
\* issued and every one failed; every failed request but the last of the
\* max_retries is followed by a sleep and the next request, and nothing
\* follows the request the fetcher returns after.
C22_BoundedRetries ==
    /\ Cardinality(requests) <= fn_in.max_retries
    /\ \A i \in requests : trace[i].ev = "get ok" => (i = Len(trace) /\ FetcherReturned)
    /\ \A i \in sleeps :
          /\ i > 1
          /\ trace[i - 1].ev = "get error"
          /\ (FetcherReturned \/ pc = "sleep") => i < Len(trace)
    /\ \A i \in requests :
          (trace[i].ev = "get error" /\ i < Len(trace)) => (i + 1) \in sleeps
    /\ \A i \in sleeps : i < Len(trace) => (i + 1) \in requests
    /\ (FetcherReturned /\ fn_out.result.kind = "value") =>
          (trace # <<>> /\ trace[Len(trace)].ev = "get ok")
    /\ (FetcherReturned /\ fn_out.result = ReturnNone) =>
          /\ Cardinality(requests) = fn_in.max_retries
          /\ \A i \in requests : trace[i].ev = "get error"
          /\ trace # <<>> => trace[Len(trace)].ev = "get error"
    /\ FetcherReturned => fn_out.result # Pending

\* with the default of two attempts, the first request failed, the fetcher
\* slept, and the second request returned the body
C22_Witness ==
    /\ FetcherReturned
    /\ fn_in.max_retries = MAX_RETRIES
    /\ fn_out.result.kind = "value"
    /\ Len(trace) = 3
    /\ trace[1].ev = "get error" /\ trace[2].ev = "sleep" /\ trace[3].ev = "get ok"

\* with the default of two attempts, both requests failed: None is returned
\* after one sleep, with no sleep after the second failure
C22_GivenUp ==
    /\ FetcherReturned
    /\ fn_in.max_retries = MAX_RETRIES
    /\ fn_out.result = ReturnNone
    /\ Len(trace) = 3
    /\ trace[3].ev = "get error"

(***************************************************************************)
(* Properties of the link extraction (checked under SpecCrawl)             *)
(***************************************************************************)
\* the page fetched last, and the links taken from it
last_fetch == crawl_log[Len(crawl_log)]

PageFetched == crawl_log # <<>> /\ last_fetch.ok

\* the element is in the search scope: inside <main> when the page has one
in_scope(page, i) == ~page.main \/ page.elems[i].in_main

\* the scope holds a card-like container
has_containers(page) ==
    \E i \in 1..Len(page.elems) : in_scope(page, i) /\ page.elems[i].card

\* anchor j is the first anchor of element i that has an href
first_with_href(page, i, j) ==
    /\ page.elems[i].anchors[j].has_href
    /\ \A k \in 1..(j - 1) : ~page.elems[i].anchors[k].has_href

\* the anchors the discovery considers: with containers, the first link of
\* each container; without, every link of the scope
considered(page, i, j) ==
    /\ in_scope(page, i)
    /\ page.elems[i].anchors[j].has_href
    /\ has_containers(page) => (page.elems[i].card /\ first_with_href(page, i, j))

anchor_positions(page) ==
    UNION {{<<i, j>> : j \in 1..Len(page.elems[i].anchors)} : i \in 1..Len(page.elems)}

\* the considered anchors whose href the validator accepts
taken(page) ==
    {p \in anchor_positions(page) :
        /\ considered(page, p[1], p[2])
        /\ is_valid_breed_url(str_strip(page.elems[p[1]].anchors[p[2]].href, SpaceSet))}

\* document order
before(p, q) == p[1] < q[1] \/ (p[1] = q[1] /\ p[2] < q[2])

\* the n-th taken anchor in document order
nth_taken(page, n) ==
    CHOOSE p \in taken(page) :
        Cardinality({q \in taken(page) : before(q, p)}) = n - 1

\* C23: the links taken from a fetched page are, in document order, the
\* accepted ones among the first link with an href of each card-like
\* container in scope when the scope holds such a container, and among all
\* links in scope when it holds none; the scope is the <main> element when
\* the page has one and the whole document otherwise.
C23_OneLinkPerContainer ==
    PageFetched =>
        /\ Len(last_fetch.links) = Cardinality(taken(last_fetch.doc))
        /\ \A n \in 1..Len(last_fetch.links) :
              /\ last_fetch.links[n].text
                    = last_fetch.doc.elems[nth_taken(last_fetch.doc, n)[1]]
                          .anchors[nth_taken(last_fetch.doc, n)[2]].text
              /\ last_fetch.links[n].href
                    = str_strip(last_fetch.doc.elems[nth_taken(last_fetch.doc, n)[1]]
                                    .anchors[nth_taken(last_fetch.doc, n)[2]].href,
                                SpaceSet)

\* a page with <main> was fetched whose first container has three anchors,
\* the first without href: its second anchor alone was taken, and neither
\* the bare link in <main> nor the container outside <main>
C23_Witness ==
    /\ PageFetched
    /\ last_fetch.doc.main
    /\ Len(last_fetch.doc.elems) = 3
    /\ Len(last_fetch.doc.elems[1].anchors) = 3
    /\ ~last_fetch.doc.elems[2].card
    /\ last_fetch.links = <<[text |-> " Shiba Inu ", href |-> "/dog-breeds/shiba-inu/"]>>

\* a page with <main> was fetched whose only container lies outside <main>:
\* all links inside <main> were scanned
C23_FallbackWitness ==
    /\ PageFetched
    /\ last_fetch.doc.main
    /\ ~has_containers(last_fetch.doc)
    /\ \E i \in 1..Len(last_fetch.doc.elems) : last_fetch.doc.elems[i].card
    /\ Len(last_fetch.links) = 2

(***************************************************************************)
(* Properties of the display name of an entry (checked under SpecCrawl)    *)
(***************************************************************************)
\* the slug of an accepted href: the last segment of its path, a trailing
\* slash set aside
own_slug(href) ==
    str_split(str_strip(urlparse(href).path, {"/"}), "/")
        [Len(str_split(str_strip(urlparse(href).path, {"/"}), "/"))]

\* the display name the link is to get
text_or_own_slug(link) ==
    IF str_strip(link.text, SpaceSet) # ""
    THEN str_strip(link.text, SpaceSet)
    ELSE str_title(str_replace(own_slug(link.href), "-", " "))

\* C24: the entry inserted for a link carries the stripped link text as its
\* display_name, and for a link without text the title-cased slug of the
\* link's own href, hyphens replaced by spaces, whether or not the href ends
\* with a slash.
C24_DisplayNameFromTextOrSlug ==
    [][(pc = "links" /\ breed_links # <<>>) =>
          \A k \in (DOMAIN breed_map') \ (DOMAIN breed_map) :
              breed_map'[k].display_name = text_or_own_slug(Head(breed_links))]_vars

(***************************************************************************)
(* Shape of a normalised key (checked under SpecNormalizer)                *)
(***************************************************************************)
has_char_of(s, chars) == \E i \in 1..Len(s) : Char(s, i) \in chars

\* the key is its own normal form
fixed_point(key) == normalize_breed_name(key) = key

\* no whitespace, no hyphen, no underscore at either end
clean_key(key) ==
    /\ ~has_char_of(key, SpaceSet \cup {"-"})
    /\ ~str_startswith(key, "_")
    /\ (key # "" => Char(key, Len(key)) # "_")

C25_DoubleUnderscore ==
    /\ fn_out.done
    /\ fn_in[1] = "a_ b"
    /\ fn_out.value[1] = "a__b"

(***************************************************************************)
(* Properties of a discovery without entries (checked under Spec)          *)
(***************************************************************************)
\* get_breed_list has crawled and returns, and the crawl collected no entry
CrawledNothing ==
    /\ pc = "returned"
    /\ call.name = "get_breed_list"
    /\ io.net
    /\ breed_map = EmptyMap

\* the directory cache file is as the call found it, and holds no directory
ListCacheAsFound ==
    /\ ~io.wrote
    /\ list_cache.st = call.list_st
    /\ ~readable(list_cache)

\* the step begins the get_breed_list call that follows a get_breed_list
\* call whose crawl collected no entry
CallAfterEmptyCrawl ==
    /\ pc = "idle"
    /\ computed.name = "get_breed_list"
    /\ computed.value = EmptyMap
    /\ call'.name = "get_breed_list"

\* C26: when the crawl collects no entry, get_breed_list returns the empty
\* directory and leaves the directory cache file as it was (absent, or not
\* readable); the step that ends a crawl without entries never changes the
\* file; and the next get_breed_list call crawls again instead of returning
\* an empty directory from the cache.
C26_EmptyDirectoryNotCached ==
    /\ [](CrawledNothing => (ret = ReturnValue(EmptyMap) /\ ListCacheAsFound))
    /\ [][(pc = "done" /\ breed_map = EmptyMap) => list_cache' = list_cache]_vars
    /\ [][CallAfterEmptyCrawl => (pc' = "page" /\ list_cache' = list_cache)]_vars

\* the get_breed_list call after a crawl without entries is crawling again
C26_Witness ==
    /\ pc = "page"
    /\ call.name = "get_breed_list"
    /\ computed.name = "get_breed_list"
    /\ computed.value = EmptyMap
    /\ ~computed.fresh
    /\ ~computed.cached
    /\ ~readable(list_cache)

\* get_breed_list returned the empty directory after a crawl, the damaged
\* cache file left as it was
C26_EmptyReturned ==
    /\ CrawledNothing
    /\ ret = ReturnValue(EmptyMap)
    /\ call.list_st = "corrupt"
    /\ list_cache = CorruptFile

(***************************************************************************)
(* The profile cache file as text.  json.dump(profile, f, indent=2,        *)
(* ensure_ascii=False) writes one JSON object; json.load(f) accepts the    *)
(* file when the whole of its text is one JSON document.                   *)
(***************************************************************************)
json_escape_char(c) ==
    CASE c = "\"" -> "\\\""
      [] c = "\\" -> "\\\\"
      [] c = "\n" -> "\\n"
      [] c = "\t" -> "\\t"
      [] OTHER -> c

RECURSIVE json_escape_range(_, _, _)
json_escape_range(s, lo, hi) ==
    IF lo > hi THEN ""
    ELSE IF lo = hi THEN json_escape_char(Char(s, lo))
    ELSE json_escape_range(s, lo, (lo + hi) \div 2)
         \o json_escape_range(s, (lo + hi) \div 2 + 1, hi)

json_string(s) == "\"" \o json_escape_range(s, 1, Len(s)) \o "\""

json_pair(k, v) == json_string(k) \o ": " \o v

RECURSIVE str_join(_, _)
\* sep.join(parts)
str_join(parts, sep) ==
    IF parts = <<>> THEN ""
    ELSE IF Len(parts) = 1 THEN parts[1]
    ELSE parts[1] \o sep \o str_join(Tail(parts), sep)

\* the keys of trait_keywords in their order of insertion
TRAIT_ORDER ==
    <<"life span", "weight", "height", "size", "temperament", "personality",
      "energy level", "grooming", "hypoallergenic", "shedding">>

RECURSIVE trait_pairs(_, _)
trait_pairs(traits, names) ==
    IF names = <<>> THEN <<>>
    ELSE (IF Head(names) \in DOMAIN traits
          THEN <<json_pair(Head(names), json_string(traits[Head(names)]))>>
          ELSE <<>>)
         \o trait_pairs(traits, Tail(names))

json_traits(traits) ==
    IF DOMAIN traits = {} THEN "{}"
    ELSE "{\n    " \o str_join(trait_pairs(traits, TRAIT_ORDER), ",\n    ") \o "\n  }"

\* the text json.dump writes for a profile
json_text(p) ==
    "{\n  "
    \o str_join(<<json_pair("breed_name", json_string(p.breed_name)),
                  json_pair("url", json_string(p.url)),
                  json_pair("title", json_string(p.title)),
                  json_pair("content", json_string(p.content)),
                  json_pair("key_traits", json_traits(p.key_traits)),
                  json_pair("scraped_at", json_string(p.scraped_at))>>,
                ",\n  ")
    \o "\n}"

\* the scanner after one character: q is "out" (outside a string), "str"
\* (inside one) or "esc" (after a backslash inside one); d is the change of
\* the nesting depth
scan_char(c, q) ==
    CASE q = "esc" -> [q |-> "str", d |-> 0]
      [] q = "str" -> [q |-> IF c = "\\" THEN "esc" ELSE IF c = "\"" THEN "out" ELSE "str",
                       d |-> 0]
      [] OTHER -> [q |-> IF c = "\"" THEN "str" ELSE "out",
                   d |-> IF c = "{" THEN 1 ELSE IF c = "}" THEN 0 - 1 ELSE 0]

\* two adjacent ranges scanned one after the other; low is the least depth
\* met after any character
scan_both(l, r) ==
    [q |-> r.q, d |-> l.d + r.d, low |-> IF l.low < l.d + r.low THEN l.low ELSE l.d + r.low]

scan_one(r) == [q |-> r.q, d |-> r.d, low |-> r.d]

ScanStates == {"out", "str", "esc"}

\* the scan of two adjacent ranges, from each state it can start in
scan_join(l, r) == [q \in ScanStates |-> scan_both(l[q], r[l[q].q])]

RECURSIVE scan_range(_, _, _)
scan_range(s, lo, hi) ==
    IF lo = hi THEN [q \in ScanStates |-> scan_one(scan_char(Char(s, lo), q))]
    ELSE scan_join(scan_range(s, lo, (lo + hi) \div 2),
                   scan_range(s, (lo + hi) \div 2 + 1, hi))

\* the scan of all but the last character leaves one object open
one_open(r) == r.q = "out" /\ r.d = 1 /\ r.low >= 1

\* json.load does not raise: the text is one object, opened by its first
\* character and closed by its last
json_valid(text) ==
    /\ Len(text) >= 2
    /\ Char(text, Len(text)) = "}"
    /\ one_open(scan_range(text, 1, Len(text) - 1)["out"])

\* the profiles get_breed_full_profile can extract for the entry
profiles_of(info) ==
    {extract_profile(info, doc, now) : doc \in DetailPageSet, now \in Times}

\* json.load(f) of a text that json.dump wrote for a profile of the entry
json_load(text, info) == CHOOSE p \in profiles_of(info) : json_text(p) = text

\* a write of text at offset 0 into a file opened before: the bytes beyond
\* the written ones stay
write_at_start(old, text) ==
    IF Len(old) > Len(text) THEN text \o SubSeq(old, Len(text) + 1, Len(old)) ELSE text

(***************************************************************************)
(* Two processes in get_breed_full_profile for one key, past the lookup    *)
(* of line 267: fn_in is the directory entry of the key, fn_out holds the  *)
(* profile cache file of the key and the position of each process          *)
(***************************************************************************)
Procs == {1, 2}

NoFile == [exists |-> FALSE, text |-> ""]

FileOf(text) == [exists |-> TRUE, text |-> text]

cache_file == fn_out.file

proc == fn_out.proc

\* the profiles whose dump has been completed, in order
written == fn_out.written

AtCheck == [at |-> "exists", profile |-> EmptyMap, ret |-> Pending, saw |-> "none"]

RaceInit ==
    /\ NotCrawling
    /\ fn_in = AkitaInfo
    /\ \E file \in {NoFile} \cup {FileOf(json_text(p)) : p \in profiles_of(AkitaInfo)} :
          fn_out = [file |-> file, proc |-> [p \in Procs |-> AtCheck], written |-> <<>>]

RaceStep(p, next, file, log) ==
    /\ fn_out' = [file |-> file, proc |-> [proc EXCEPT ![p] = next], written |-> log]
    /\ UNCHANGED <<fn_in, crawl_vars, io, api_vars>>

\* line 277: os.path.exists(cache_file)
CacheExists(p) ==
    /\ proc[p].at = "exists"
    /\ RaceStep(p, [proc[p] EXCEPT !.at = IF cache_file.exists THEN "read" ELSE "fetch"],
                cache_file, written)

\* lines 278-284: the file is opened and parsed; a parse failure is a miss
CacheRead(p) ==
    /\ proc[p].at = "read"
    /\ RaceStep(p,
                IF json_valid(cache_file.text)
                THEN [proc[p] EXCEPT !.at = "done", !.saw = "profile",
                                     !.ret = ReturnValue(json_load(cache_file.text, fn_in))]
                ELSE [proc[p] EXCEPT !.at = "fetch",
                                     !.saw = IF cache_file.text = ""
                                             THEN "empty" ELSE "damaged"],
                cache_file, written)

\* lines 290-370: the page is fetched and the profile extracted
ProfileFetched(p, doc, now) ==
    /\ proc[p].at = "fetch"
    /\ RaceStep(p, [proc[p] EXCEPT !.at = "open",
                                   !.profile = extract_profile(fn_in, doc, now)],
                cache_file, written)

\* lines 290-292, 382-384: the request fails and None is returned
ProfileFetchFails(p) ==
    /\ proc[p].at = "fetch"
    /\ RaceStep(p, [proc[p] EXCEPT !.at = "done", !.ret = ReturnNone], cache_file, written)

\* line 373: open(cache_file, 'w') creates or truncates the file
CacheOpen(p) ==
    /\ proc[p].at = "open"
    /\ RaceStep(p, [proc[p] EXCEPT !.at = "dump"], FileOf(""), written)

\* lines 374-380: json.dump and the close of the file write the text at the
\* start of the file; the profile is returned
CacheDump(p) ==
    /\ proc[p].at = "dump"
    /\ RaceStep(p, [proc[p] EXCEPT !.at = "done", !.ret = ReturnValue(proc[p].profile)],
                FileOf(write_at_start(cache_file.text, json_text(proc[p].profile))),
                Append(written, proc[p].profile))

RaceNext ==
    \E p \in Procs :
        \/ CacheExists(p)
        \/ CacheRead(p)
        \/ \E doc \in DetailPageSet, now \in Times : ProfileFetched(p, doc, now)
        \/ ProfileFetchFails(p)
        \/ CacheOpen(p)
        \/ CacheDump(p)

SpecRace == RaceInit /\ [][RaceNext]_vars

(***************************************************************************)
(* Properties of two concurrent get_breed_full_profile calls (checked      *)
(* under SpecRace)                                                         *)
(***************************************************************************)
BothDone == \A p \in Procs : proc[p].at = "done"

\* what a finished process returned is None or a profile with all its fields
CompleteOrNone(p) ==
    \/ proc[p].ret = ReturnNone
    \/ proc[p].ret.kind = "value" /\ proc[p].ret.value \in profiles_of(fn_in)

\* a process that read the file truncated goes on to fetch the page, and
\* returns the profile it extracted itself, or None
MissAfterEmptyRead(p) ==
    proc[p].saw = "empty" =>
        /\ proc[p].at \in {"fetch", "open", "dump", "done"}
        /\ proc[p].at = "done" =>
              proc[p].ret \in {ReturnNone, ReturnValue(proc[p].profile)}

\* the file holds the text of one of the profiles written
HoldsWrittenProfile ==
    /\ cache_file.exists
    /\ \E i \in 1..Len(written) : cache_file.text = json_text(written[i])

\* no process returns partial data
C27_NoPartialReturn ==
    \A p \in Procs : (proc[p].at = "done" => CompleteOrNone(p)) /\ MissAfterEmptyRead(p)

\* C27: with two processes in get_breed_full_profile for one key, each
\* returns None or a complete profile; a process that reads the cache file
\* while it is truncated treats it as a miss and fetches the page; and when
\* both have finished and a profile was written, the cache file holds one of
\* the profiles written.
C27_ConcurrentProfileCalls ==
    /\ C27_NoPartialReturn
    /\ (BothDone /\ written # <<>>) => HoldsWrittenProfile

\* both processes wrote, and the file holds the shorter text followed by the
\* end of the longer one: json.load rejects it
C27_MixedFile ==
    /\ BothDone
    /\ Len(written) = 2
    /\ ~json_valid(cache_file.text)
    /\ cache_file.text = write_at_start(json_text(written[1]), json_text(written[2]))
    /\ cache_file.text # json_text(written[2])

\* a process read the truncated file while the other was between open and
\* dump, fetched the page itself and returned its own profile
C27_EmptyReadWitness ==
    \E p \in Procs :
        /\ proc[p].saw = "empty"
        /\ proc[p].at = "done"
        /\ proc[p].ret = ReturnValue(proc[p].profile)

====
